---- MODULE Spec2Model ----
(***************************************************************************)
(* Model of the background backup thread of borgmatic-windows-tray         *)
(* (src/backups.py), the request classes it exchanges with the systray     *)
(* (src/queue_requests.py) and the systray's update thread                 *)
(* (src/systray.py).                                                       *)
(*                                                                         *)
(* One dispatch loop (BackgroundBackupThread.run) takes requests from the  *)
(* input queue; every Start/Analyze/Diff request is handed to a new        *)
(* thread.  Threads and the dispatch loop share task_status,               *)
(* last_sent_icon, both queues and the files of a configuration.  A step   *)
(* of the model is one access to that shared state; the statements a       *)
(* thread runs between two such accesses belong to the step before them.   *)
(***************************************************************************)
EXTENDS Integers, Sequences, FiniteSets, TLC

\* ------------------------------------------------------------------ bounds
\* Requests the systray (and the schedule) may create in one run.
MaxRequests == 3
\* Lines one process may print.
MaxLines == 3
\* Messages that may wait on the output queue; a put waits for the systray
\* to take one when there are that many.
MaxOutput == 1

\* The most keys of a status table given as an input to update_systray.
MaxKeys == 3

\* The most lines in the current log of an analysed config (an older
\* generation holds one fewer), and the most generations that exist of it.
MaxLogLines == 3

MaxLogs == 2

\* ------------------------------------------------------------- vocabulary
Configs == {"Alpha", "Disk backup"}

NOT_STARTED == "NOT_STARTED"
RUNNING == "RUNNING"
FINISHED == "FINISHED"
FAILED == "FAILED"
CANCEL_REQUESTED == "CANCEL_REQUESTED"

TaskStatus == {NOT_STARTED, RUNNING, FINISHED, FAILED, CANCEL_REQUESTED}

TaskKinds == {"backup", "post-backup", "analysis", "diff"}

\* A task title f"{config.name} {kind}" is the pair of its two parts.
Titles == Configs \X TaskKinds

None == "None"
NoConfig == "-"

VARIABLES
    input_queue,      \* Queue: systray -> backup thread
    output_queue,     \* Queue: backup thread -> systray
    task_status,      \* defaultdict: title -> TaskStatus
    task_keys,        \* the keys of task_status, in insertion order
    last_sent_icon,   \* BackgroundBackupThread.last_sent_icon
    run_pc,           \* where BackgroundBackupThread.run stands
    queue_item,       \* the request run() is handling
    exit_iter,        \* queue_exit's iterator over task_status.keys()
    threads,          \* request identity -> the thread run() started for it
    log_files,        \* config -> the generations of its log file
    line_count_file,  \* config -> content of backup_line_count_file
    log_text,         \* content of a log file -> the lines in it
    report_files,     \* config -> what the reports written for it hold
    schedule_jobs,    \* the schedule module's jobs, by tag and request
    systray_pc,       \* where BorgmaticSystray.systray_update_thread stands
    next_id,          \* identities of the request objects created so far
    systray_icon,     \* the icon of the last icon-carrying message the systray got
    popen_count       \* request identity -> processes spawned for it

vars == <<input_queue, output_queue, task_status, task_keys, last_sent_icon,
          run_pc, queue_item, exit_iter, threads, log_files, line_count_file,
          log_text, report_files, schedule_jobs, systray_pc, next_id, systray_icon, popen_count>>

\* ----------------------------------------------------------------- helpers
Range(s) == {s[i] : i \in 1..Len(s)}

Min(S) == CHOOSE x \in S : \A y \in S : x <= y

\* queue_requests.py: a request is its class, its config, is_scheduled and
\* the identity of the object.
Request(type, config, is_scheduled, id) ==
    [type |-> type, config |-> config, is_scheduled |-> is_scheduled, id |-> id]

\* Identities 1, 2, ... go to the requests the systray creates during a
\* run; FirstId is a request that is on the queue from the start.  Exit requests and
\* the absence of a request carry no identity that matters.
FirstId == 0

NoId == 0 - 1

ExitRequest == Request("Exit", NoConfig, FALSE, NoId)

NoRequest == Request(None, NoConfig, FALSE, NoId)

\* UpdateSystray(hover_text, icon)
UpdateSystray(hover_text, icon) ==
    [type |-> "UpdateSystray", hover_text |-> hover_text, icon |-> icon]

\* A hover text, kept as what it says and the title (or config) it is about.
Hover(what, about) == <<what, about>>

NoTitle == <<NoConfig, None>>

NoHover == Hover(None, NoTitle)

ExitMessage == [type |-> "Exit", hover_text |-> NoHover, icon |-> None]

\* -------------------------------------------------------------- task status
\* task_status[title] on a defaultdict: reading or writing a title that is
\* not a key yet inserts it.
Touch(keys, title) ==
    IF title \in Range(keys) THEN keys ELSE Append(keys, title)

\* task_is_running returning True in a default case, with False for
\* NOT_STARTED and FINISHED only
TaskIsRunningUnlessIdle(status, title) ==
    status[title] \notin {NOT_STARTED, FINISHED}

\* task_is_running without `case TaskStatus.CANCEL_REQUESTED: return True`
TaskIsRunningUnlessCancelled(status, title) ==
    status[title] = RUNNING

\* task_is_running
TaskIsRunning(status, title) ==
    status[title] \in {RUNNING, CANCEL_REQUESTED}

BackupTitle(config) == <<config, "backup">>

PostBackupTitle(config) == <<config, "post-backup">>

AnalysisTitle(config) == <<config, "analysis">>

DiffTitle(config) == <<config, "diff">>

\* The title a thread works under: task_title of run_backup, run_post_backup,
\* analyze_logs and diff_last_backups.
TaskTitle(request) ==
    CASE request.type = "StartBackup" -> BackupTitle(request.config)
      [] request.type = "StartPostBackup" -> PostBackupTitle(request.config)
      [] request.type = "AnalyzeLogs" -> AnalysisTitle(request.config)
      [] request.type = "DiffLastBackups" -> DiffTitle(request.config)

\* --------------------------------------------------------- update_systray
\* `"backup" in task` and the like, on the kind a title ends with (no config
\* name holds one of the four words).
KindContains(kind, word) ==
    \/ kind = word
    \/ kind = "post-backup" /\ word = "backup"

\* `word in config.name`, for the words update_systray tests: of the names
\* in Configs only "Disk backup" contains one, "backup".
NameContains(name, word) == name = "Disk backup" /\ word = "backup"

\* `word in task`: the title is f"{config.name} {kind}".
TitleContains(title, word) ==
    NameContains(title[1], word) \/ KindContains(title[2], word)

\* The chain of tests with "backup" tested before "post-backup"
RunningIconBackupFirst(title) ==
    IF TitleContains(title, "backup") THEN "./icons/backup.ico"
    ELSE IF TitleContains(title, "post-backup") THEN "./icons/post-backup.ico"
    ELSE IF TitleContains(title, "analysis") THEN "./icons/analyze.ico"
    ELSE IF TitleContains(title, "diff") THEN "./icons/logs.ico"
    ELSE None

RunningIcon(title) ==
    IF TitleContains(title, "post-backup") THEN "./icons/post-backup.ico"
    ELSE IF TitleContains(title, "backup") THEN "./icons/backup.ico"
    ELSE IF TitleContains(title, "analysis") THEN "./icons/analyze.ico"
    ELSE IF TitleContains(title, "diff") THEN "./icons/logs.ico"
    ELSE None

\* The icon update_systray chooses when it is given none.
SelectIcon(status, keys) ==
    LET values == {status[keys[i]] : i \in 1..Len(keys)}
    IN  IF FAILED \in values THEN "./icons/error.ico"
        ELSE IF RUNNING \in values
            THEN LET first == Min({i \in 1..Len(keys) : status[keys[i]] = RUNNING})
                 IN  RunningIcon(keys[first])
        ELSE IF FINISHED \in values THEN "./icons/success.ico"
        ELSE "./icons/drive.ico"

\* The queue after put(message).  Once the systray has stopped reading, an
\* UpdateSystray message is never taken off the queue: it is left out.
Put(queue, message) ==
    IF systray_pc = "stopped" THEN queue ELSE Append(queue, message)

\* update_systray(hover_text, icon): what it leaves in last_sent_icon and
\* what it puts on the output queue.
UpdateSystrayCall(queue, last, status, keys, hover_text, icon) ==
    LET chosen == IF icon = None THEN SelectIcon(status, keys) ELSE icon
    IN  [last |-> chosen,
         queue |-> Put(queue,
                       UpdateSystray(hover_text, IF chosen = last THEN None ELSE chosen))]

\* self.output_queue.put(...) of `count` UpdateSystray messages has room.
\* The Queue has no maxsize; MaxOutput bounds the messages waiting for the
\* systray while it reads them.  An Exit, of which only a few are ever put,
\* is always taken, and so is every message once the systray has stopped
\* reading.
CanPut(count) ==
    \/ systray_pc = "stopped"
    \/ Cardinality({i \in 1..Len(output_queue) : output_queue[i].type = "UpdateSystray"})
           + count <= MaxOutput

\* output(line): print the line and update_systray(line).
Output(queue, last, status, keys, hover_text) ==
    UpdateSystrayCall(queue, last, status, keys, hover_text, None)

\* ------------------------------------------------ analyze_logs: the lines
\* A file named in a log is the list log_file.split("/") gives for it; the
\* paths of it are the "/".join(path_components[:j]), kept as the lists.
LogFiles == {<<"", "a">>, <<"", "a", "b">>}

PathsOf(log_file) == {SubSeq(log_file, 1, j) : j \in 1..Len(log_file)}

Paths == UNION {PathsOf(log_file) : log_file \in LogFiles}

\* A line of a log: len(line.split()), the time of parts[0:2] in seconds,
\* parts[3], parts[4:], and whether "file changed while we read it!" is in
\* the line.
LogLine(parts, timestamp, file_flag, log_file, changed) ==
    [parts |-> parts, timestamp |-> timestamp, file_flag |-> file_flag,
     log_file |-> log_file, changed |-> changed]

\* previous_line = ""
EmptyLine == LogLine(0, 0, "", <<>>, FALSE)

\* previous_timestamp = None
NoTimestamp == -1

\* len(file_flag) == 1
SingleCharacter(file_flag) == file_flag \in {"A", "-", "E"}

\* The locals of analyze_logs: the two defaultdict(float) with their keys,
\* the two lists, backup_count, and previous_timestamp / previous_line of
\* the file being read.
NoAnalysis ==
    [file_backup_times |-> [f \in LogFiles |-> 0], file_keys |-> {},
     path_backup_times |-> [p \in Paths |-> 0], path_keys |-> {},
     error_lines |-> <<>>, excluded_files |-> <<>>, backup_count |-> 0,
     previous_timestamp |-> NoTimestamp, previous_line |-> EmptyLine]

\* `if backup_time < 600` letting every delta in
BackupTimeCountedAlways(backup_time) == TRUE

\* if backup_time < 600
BackupTimeCounted(backup_time) == backup_time < 600

\* The body of `for line in log_file`, in generation i.
ScanLine(a, i, line) ==
    IF line.parts < 5 THEN a
    ELSE LET previous_timestamp == IF a.previous_timestamp = NoTimestamp
                                   THEN line.timestamp ELSE a.previous_timestamp
             backup_time == line.timestamp - previous_timestamp
             counted == SingleCharacter(line.file_flag) /\ BackupTimeCounted(backup_time)
             timed == IF ~counted THEN a
                      ELSE [a EXCEPT
                               !.file_backup_times[line.log_file] = @ + backup_time,
                               !.file_keys = @ \cup {line.log_file},
                               !.path_backup_times =
                                   [p \in Paths |-> IF p \in PathsOf(line.log_file)
                                                    THEN @[p] + backup_time ELSE @[p]],
                               !.path_keys = @ \cup PathsOf(line.log_file)]
             excluded == IF i = 0 /\ line.file_flag = "-"
                         THEN Append(a.excluded_files, line) ELSE a.excluded_files
             errors == IF i = 0 /\ line.file_flag = "E"
                       THEN Append(a.error_lines, a.previous_line) ELSE a.error_lines
             changed == IF i = 0 /\ line.changed THEN Append(errors, line) ELSE errors
         IN  [timed EXCEPT !.excluded_files = excluded, !.error_lines = changed,
                           !.previous_timestamp = line.timestamp,
                           !.previous_line = line]

\* for line in log_file, from line n on
RECURSIVE ScanLines(_, _, _, _)
ScanLines(a, i, lines, n) ==
    IF n > Len(lines) THEN a
    ELSE ScanLines(ScanLine(a, i, lines[n]), i, lines, n + 1)

\* One turn of `for i in range(0, 10)` on a file that exists:
\* previous_timestamp = None; previous_line = ""; the lines; backup_count += 1
ScanGeneration(a, i, lines) ==
    LET fresh == [a EXCEPT !.previous_timestamp = NoTimestamp,
                           !.previous_line = EmptyLine]
    IN  [ScanLines(fresh, i, lines, 1) EXCEPT !.backup_count = @ + 1]

\* f"{backup_time / backup_count:.2f}", in hundredths of a second
Hundredths(backup_time, backup_count) ==
    (200 * backup_time + backup_count) \div (2 * backup_count)

\* What the reports of a config hold: the time written for each file and
\* each path, the lines of the excluded and of the errors report, the
\* count in the headers, and which reports were written.
NoReports ==
    [report_files |-> [f \in {} |-> 0], report_paths |-> [p \in {} |-> 0],
     report_excluded |-> <<>>, report_errors |-> <<>>, backup_count |-> 0,
     written |-> {}]

\* The four write_report calls of analyze_logs, after
\* `if backup_count == 0: backup_count = 1`.
AnalysisReports(reports, a) ==
    LET backup_count == IF a.backup_count = 0 THEN 1 ELSE a.backup_count
    IN  [report_files |-> [f \in a.file_keys |->
                              Hundredths(a.file_backup_times[f], backup_count)],
         report_paths |-> [p \in a.path_keys |->
                              Hundredths(a.path_backup_times[p], backup_count)],
         report_excluded |-> a.excluded_files,
         report_errors |-> a.error_lines,
         backup_count |-> backup_count,
         written |-> reports.written \cup {"report_files", "report_paths",
                                           "report_excluded", "report_errors"}]

\* ----------------------------------------------------------------- threads
Idle ==
    [pc |-> "idle", request |-> NoRequest, line_count |-> 0,
     line_count_target |-> 0, process |-> "none", returncode |-> 0,
     terminate_sent |-> FALSE, generation |-> 0, icon |-> None,
     analysis |-> NoAnalysis]

\* A thread is known by the identity of the request it was started with.
ThreadIds == 0..MaxRequests

\* Thread(target=..., args=(queue_item,)).start()
NewThread(request, pc) == [Idle EXCEPT !.pc = pc, !.request = request]

IsLive(w) == threads[w].process = "live"

\* ------------------------------------------------------------ rotate_logs
\* The log of a config is a function from generation (0 = the log without
\* suffix, i = log.i) to the content of that file; NoFile where none exists.
NoFile == 0

Generations == 0..9

NoLogs == [g \in Generations |-> NoFile]

\* What borgmatic leaves in the --log-file it writes.
BorgmaticLog == 1

\* What an earlier run left in generation g of the log.
OldLog(g) == g + 2

\* Every content a log file can have.
Contents == {NoFile, BorgmaticLog} \cup {OldLog(g) : g \in Generations}

\* The lines of every content, when no log holds a line.
NoText == [content \in Contents |-> <<>>]

\* The logs of a config of which exactly these generations exist.
OldLogs(existing) ==
    [g \in Generations |-> IF g \in existing THEN OldLog(g) ELSE NoFile]

\* move(log.i, log.(i+1))
Move(files, from, to) == [files EXCEPT ![to] = files[from], ![from] = NoFile]

\* The loop of rotate_logs counting up, for i in range(1, 9)
RECURSIVE ShiftGenerationsUpward(_, _)
ShiftGenerationsUpward(files, i) ==
    IF i = 0 THEN files
    ELSE LET g == 9 - i
         IN  ShiftGenerationsUpward(
                 IF files[g] # NoFile THEN Move(files, g, g + 1) ELSE files, i - 1)

\* for i in range(8, 0, -1): if log.i exists: move(log.i, log.(i+1))
RECURSIVE ShiftGenerations(_, _)
ShiftGenerations(files, i) ==
    IF i = 0 THEN files
    ELSE ShiftGenerations(IF files[i] # NoFile THEN Move(files, i, i + 1) ELSE files,
                          i - 1)

RotateLogs(files) ==
    LET unlinked == IF files[9] # NoFile THEN [files EXCEPT ![9] = NoFile] ELSE files
        shifted == ShiftGenerations(unlinked, 8)
    IN  IF shifted[0] # NoFile THEN Move(shifted, 0, 1) ELSE shifted

\* ------------------------------------------------- backup_line_count_file
\* The file is absent, or holds text that int() parses to `value`, or text
\* that int() rejects.
LineCountFile(exists, parses, value) ==
    [exists |-> exists, parses |-> parses, value |-> value]

NoLineCount == LineCountFile(FALSE, FALSE, 0)

\* save_line_count given a count that includes the empty read ending the loop
SavedLineCountWithLastRead(line_count) == LineCountFile(TRUE, TRUE, line_count + 1)

\* save_line_count: file.write(str(line_count))
SavedLineCount(line_count) == LineCountFile(TRUE, TRUE, line_count)

\* -------------------------------------------------------------------- Init
\* enable_scheduled_backups: the two jobs it registers under the config's
\* name as tag; a job is the request class its lambda puts on the input
\* queue, with is_scheduled True.
Job(tag, type) == [tag |-> tag, type |-> type]

EnabledJobs(config) ==
    <<Job(config, "StartBackup"), Job(config, "StartPostBackup")>>

\* The state after BackgroundBackupThread.__init__, with `requests` put on
\* the input queue by then, the files of the configs as given and the jobs
\* the schedule holds.
ConstructedWith(requests, logs, line_counts, jobs, text) ==
    /\ input_queue = requests
    /\ output_queue = <<>>
    /\ task_status = [t \in Titles |-> NOT_STARTED]
    /\ task_keys = <<>>
    /\ last_sent_icon = None
    /\ run_pc = "start"
    /\ queue_item = NoRequest
    /\ exit_iter = [index |-> 0, size |-> 0]
    /\ threads = [w \in ThreadIds |-> Idle]
    /\ log_files = logs
    /\ line_count_file = line_counts
    /\ log_text = text
    /\ report_files = [c \in Configs |-> NoReports]
    /\ schedule_jobs = jobs
    /\ systray_pc = "loop"
    /\ next_id = 0
    /\ systray_icon = None
    /\ popen_count = [w \in ThreadIds |-> 0]

\* The same, with log files that hold no line.
Constructed(requests, logs, line_counts, jobs) ==
    ConstructedWith(requests, logs, line_counts, jobs, NoText)

\* The key orders a defaultdict can have over these titles: every sequence
\* of at most `most` distinct titles.
KeyOrders(titles, most) ==
    UNION {{keys \in [1..n -> titles] :
               \A i, j \in 1..n : keys[i] = keys[j] => i = j} :
           n \in 0..most}

\* The status tables with these keys: any status under a key, and
\* NOT_STARTED, the default, for every title that is no key.
StatusTables(keys) ==
    {[title \in Titles |-> IF title \in Range(keys) THEN held[title] ELSE NOT_STARTED] :
        held \in [Range(keys) -> TaskStatus]}

\* A state in which the status table is as given, the loop run() is about
\* to start and no thread runs: the inputs of task_is_running and of
\* update_systray.
WithTable(requests, status, keys) ==
    /\ input_queue = requests
    /\ output_queue = <<>>
    /\ task_status = status
    /\ task_keys = keys
    /\ last_sent_icon = None
    /\ run_pc = "start"
    /\ queue_item = NoRequest
    /\ exit_iter = [index |-> 0, size |-> 0]
    /\ threads = [w \in ThreadIds |-> Idle]
    /\ log_files = [c \in Configs |-> NoLogs]
    /\ line_count_file = [c \in Configs |-> NoLineCount]
    /\ log_text = NoText
    /\ report_files = [c \in Configs |-> NoReports]
    /\ schedule_jobs = <<>>
    /\ systray_pc = "loop"
    /\ next_id = 0
    /\ systray_icon = None
    /\ popen_count = [w \in ThreadIds |-> 0]

Init ==
    Constructed(<<>>, [c \in Configs |-> NoLogs], [c \in Configs |-> NoLineCount],
                <<>>)

\* ------------------------------------------------------------ frame groups
queues == <<input_queue, output_queue>>

table == <<task_status, task_keys>>

files == <<log_files, line_count_file, log_text, report_files>>

dispatcher == <<run_pc, queue_item, exit_iter>>

systray == <<systray_pc, next_id, systray_icon>>

\* -------------------------------------------- BackgroundBackupThread.run
\* self.output("Background backup thread started")
RunStart ==
    /\ run_pc = "start"
    /\ CanPut(1)
    /\ LET out == Output(output_queue, last_sent_icon, task_status, task_keys,
                         Hover("Background backup thread started", NoTitle))
       IN  /\ output_queue' = out.queue
           /\ last_sent_icon' = out.last
    /\ run_pc' = "loop"
    /\ UNCHANGED <<input_queue, table, queue_item, exit_iter, threads, files,
                   schedule_jobs, systray, popen_count>>

\* schedule.run_pending() at the top of a turn of the loop finds this job
\* due: its lambda puts a new request, is_scheduled True, on the input queue.
RunPending(job) ==
    /\ run_pc = "loop"
    /\ job \in Range(schedule_jobs)
    /\ next_id < MaxRequests
    /\ next_id' = next_id + 1
    /\ input_queue' = Append(input_queue, Request(job.type, job.tag, TRUE, next_id + 1))
    /\ UNCHANGED <<output_queue, table, last_sent_icon, dispatcher, threads, files,
                   schedule_jobs, systray_pc, systray_icon, popen_count>>

\* queue_item = self.input_queue.get(timeout=1) gave a request of this type
Got(type) ==
    /\ run_pc = "loop"
    /\ input_queue # <<>>
    /\ Head(input_queue).type = type

\* The pc a new thread starts at.
EntryPc(request) ==
    CASE request.type = "StartBackup" -> "check"
      [] request.type = "StartPostBackup" ->
            IF request.is_scheduled THEN "sleep10" ELSE "check"
      [] request.type = "AnalyzeLogs" -> "set_running"
      [] request.type = "DiffLastBackups" -> "set_running"

\* case StartBackup / StartPostBackup / AnalyzeLogs / DiffLastBackups:
\*     Thread(target=..., args=(queue_item,)).start()
StartThread(type) ==
    /\ Got(type)
    /\ LET request == Head(input_queue)
       IN  /\ threads[request.id].pc = "idle"
           /\ threads' = [threads EXCEPT
                 ![request.id] = NewThread(request, EntryPc(request))]
    /\ input_queue' = Tail(input_queue)
    /\ UNCHANGED <<output_queue, table, last_sent_icon, dispatcher, files,
                   schedule_jobs, systray, popen_count>>

DispatchStartBackup == StartThread("StartBackup")

DispatchStartPostBackup == StartThread("StartPostBackup")

DispatchAnalyzeLogs == StartThread("AnalyzeLogs")

DispatchDiffLastBackups == StartThread("DiffLastBackups")

\* schedule.clear(tag) that cancels no job
ScheduleClearNothing(jobs, tag) == jobs

\* schedule.clear(tag): every job that carries the tag is cancelled
ScheduleClear(jobs, tag) ==
    LET Kept(job) == job.tag # tag
    IN  SelectSeq(jobs, Kept)

\* case EnableScheduledBackups: enable_scheduled_backups(queue_item)
\*     schedule.clear(request.config.name)
\*     schedule.every(...).hours.at(":00").do(...).tag(request.config.name)
\*     schedule.every(...).hours.at(":01").do(...).tag(request.config.name)
\*     self.output(f"Enabled scheduled backups for {request.config.name}")
DispatchEnableScheduledBackups ==
    /\ Got("EnableScheduledBackups")
    /\ CanPut(1)
    /\ LET config == Head(input_queue).config
           out == Output(output_queue, last_sent_icon, task_status, task_keys,
                         Hover("Enabled scheduled backups", <<config, None>>))
       IN  /\ schedule_jobs' = ScheduleClear(schedule_jobs, config) \o EnabledJobs(config)
           /\ output_queue' = out.queue
           /\ last_sent_icon' = out.last
    /\ input_queue' = Tail(input_queue)
    /\ UNCHANGED <<table, dispatcher, threads, files, systray, popen_count>>

\* case DisableScheduledBackups: disable_scheduled_backups(queue_item)
\*     schedule.clear(request.config.name)
\*     self.output(f"Disabled scheduled backups for {request.config.name}")
DispatchDisableScheduledBackups ==
    /\ Got("DisableScheduledBackups")
    /\ CanPut(1)
    /\ LET config == Head(input_queue).config
           out == Output(output_queue, last_sent_icon, task_status, task_keys,
                         Hover("Disabled scheduled backups", <<config, None>>))
       IN  /\ schedule_jobs' = ScheduleClear(schedule_jobs, config)
           /\ output_queue' = out.queue
           /\ last_sent_icon' = out.last
    /\ input_queue' = Tail(input_queue)
    /\ UNCHANGED <<table, dispatcher, threads, files, systray, popen_count>>

\* cancel_post_backup with the task_title line of cancel_backup
CancelTitleAlwaysBackup(request) ==
    BackupTitle(request.config)

\* The title cancel_backup / cancel_post_backup act on.
CancelTitle(request) ==
    IF request.type = "CancelBackup" THEN BackupTitle(request.config)
    ELSE PostBackupTitle(request.config)

\* cancel_backup, cancel_post_backup: `if self.task_is_running(task_title):`
CancelCheck(type) ==
    /\ Got(type)
    /\ LET request == Head(input_queue)
           title == CancelTitle(request)
       IN  /\ task_keys' = Touch(task_keys, title)
           /\ IF TaskIsRunning(task_status, title)
              THEN run_pc' = "cancel_write" /\ queue_item' = request
              ELSE UNCHANGED <<run_pc, queue_item>>
    /\ input_queue' = Tail(input_queue)
    /\ UNCHANGED <<output_queue, task_status, last_sent_icon, exit_iter, threads,
                   files, schedule_jobs, systray, popen_count>>

DispatchCancelBackup == CancelCheck("CancelBackup")

DispatchCancelPostBackup == CancelCheck("CancelPostBackup")

\* self.task_status[task_title] = TaskStatus.CANCEL_REQUESTED
\* self.output(f"Cancelled {config.name} backup")
CancelWrite ==
    /\ run_pc = "cancel_write"
    /\ CanPut(1)
    /\ LET title == CancelTitle(queue_item)
           status == [task_status EXCEPT ![title] = CANCEL_REQUESTED]
           out == Output(output_queue, last_sent_icon, status, task_keys,
                         Hover("Cancelled", title))
       IN  /\ task_status' = status
           /\ output_queue' = out.queue
           /\ last_sent_icon' = out.last
    /\ run_pc' = "loop"
    /\ queue_item' = NoRequest
    /\ UNCHANGED <<input_queue, task_keys, exit_iter, threads, files,
                   schedule_jobs, systray, popen_count>>

\* case Exit(): self.queue_exit(): the two puts, and the iterator of
\* `for task in self.task_status.keys()` is created.
DispatchExit ==
    /\ Got("Exit")
    /\ input_queue' = Append(Tail(input_queue), ExitRequest)
    /\ output_queue' = Append(output_queue, ExitMessage)
    /\ run_pc' = "queue_exit"
    /\ queue_item' = Head(input_queue)
    /\ exit_iter' = [index |-> 1, size |-> Len(task_keys)]
    /\ UNCHANGED <<table, last_sent_icon, threads, files, schedule_jobs, systray,
                   popen_count>>

\* The request classes the systray menu puts on the input queue.
MenuTypes ==
    {"StartBackup", "CancelBackup", "StartPostBackup", "CancelPostBackup",
     "EnableScheduledBackups", "DisableScheduledBackups", "AnalyzeLogs",
     "DiffLastBackups"}

\* The classes run() has a case for.
RunCases == MenuTypes \cup {"Exit"}

\* The except clause of run(), first statement:
\*     self.output(f"Error in background backup thread: {ex}...")
RunExcept ==
    LET out == Output(output_queue, last_sent_icon, task_status, task_keys,
                      Hover("Error in background backup thread", NoTitle))
    IN  /\ output_queue' = out.queue
        /\ last_sent_icon' = out.last
        /\ run_pc' = "except"
        /\ queue_item' = NoRequest

\* case _: raise TypeError(f"Backup thread got unknown type in input queue")
DispatchOther ==
    /\ run_pc = "loop"
    /\ input_queue # <<>>
    /\ Head(input_queue).type \notin RunCases
    /\ CanPut(1)
    /\ RunExcept
    /\ input_queue' = Tail(input_queue)
    /\ UNCHANGED <<table, exit_iter, threads, files, schedule_jobs, systray, popen_count>>

\* The except clause of run() without its second statement
RunExceptWithoutIcon ==
    /\ run_pc = "except"
    /\ run_pc' = "loop"
    /\ UNCHANGED <<queues, table, last_sent_icon, queue_item, exit_iter, threads,
                   files, schedule_jobs, systray, popen_count>>

\* The except clause of run(), second statement:
\*     self.update_systray(icon="./icons/error.ico")
RunExceptIcon ==
    /\ run_pc = "except"
    /\ CanPut(1)
    /\ LET out == UpdateSystrayCall(output_queue, last_sent_icon, task_status,
                                    task_keys, NoHover, "./icons/error.ico")
       IN  /\ output_queue' = out.queue
           /\ last_sent_icon' = out.last
    /\ run_pc' = "loop"
    /\ UNCHANGED <<input_queue, table, queue_item, exit_iter, threads, files,
                   schedule_jobs, systray, popen_count>>

\* One turn of queue_exit's loop.  The iterator raises RuntimeError when the
\* dict has another size than when the loop began (a thread touched a new
\* title meanwhile); run() catches it and goes on looping.  When the keys
\* are exhausted run() breaks and says it exits.
QueueExitNext ==
    /\ run_pc = "queue_exit"
    /\ IF Len(task_keys) # exit_iter.size
       THEN /\ CanPut(1)
            /\ RunExcept
            /\ exit_iter' = [index |-> 0, size |-> 0]
            /\ UNCHANGED task_status
       ELSE IF exit_iter.index > exit_iter.size
       THEN LET out == Output(output_queue, last_sent_icon, task_status, task_keys,
                              Hover("Exiting background backup thread", NoTitle))
            IN  /\ CanPut(1)
                /\ output_queue' = out.queue
                /\ last_sent_icon' = out.last
                /\ run_pc' = "stopped"
                /\ queue_item' = NoRequest
                /\ exit_iter' = [index |-> 0, size |-> 0]
                /\ UNCHANGED task_status
       ELSE /\ task_status' = [task_status EXCEPT
                                  ![task_keys[exit_iter.index]] = CANCEL_REQUESTED]
            /\ exit_iter' = [exit_iter EXCEPT !.index = @ + 1]
            /\ UNCHANGED <<output_queue, last_sent_icon, run_pc, queue_item>>
    /\ UNCHANGED <<input_queue, task_keys, threads, files, schedule_jobs, systray,
                   popen_count>>

\* --------------------------------------------- the steps of a task thread
At(w, pc, types) ==
    /\ threads[w].pc = pc
    /\ threads[w].request.type \in types

StartTypes == {"StartBackup", "StartPostBackup"}

\* sleep(10) of a scheduled StartPostBackup
Sleep10(w) ==
    /\ At(w, "sleep10", {"StartPostBackup"})
    /\ threads' = [threads EXCEPT ![w].pc = "check"]
    /\ UNCHANGED <<queues, table, last_sent_icon, dispatcher, files, schedule_jobs,
                   systray, popen_count>>

\* run_backup, run_post_backup:
\*     if self.task_is_running(task_title):
\*         self.output(f"{task_title} is already running, skipping"); return
CheckRunning(w) ==
    /\ At(w, "check", StartTypes)
    /\ LET request == threads[w].request
           title == TaskTitle(request)
           keys == Touch(task_keys, title)
       IN  /\ task_keys' = keys
           /\ IF TaskIsRunning(task_status, title)
              THEN LET out == Output(output_queue, last_sent_icon, task_status, keys,
                                     Hover("is already running, skipping", title))
                   IN  /\ CanPut(1)
                       /\ output_queue' = out.queue
                       /\ last_sent_icon' = out.last
                       /\ threads' = [threads EXCEPT ![w] = Idle]
              ELSE /\ threads' = [threads EXCEPT ![w].pc =
                          IF request.type = "StartBackup" THEN "rotate"
                          ELSE "check_backup"]
                   /\ UNCHANGED <<output_queue, last_sent_icon>>
    /\ UNCHANGED <<input_queue, task_status, dispatcher, files, schedule_jobs,
                   systray, popen_count>>

\* run_post_backup:
\*     if self.task_is_running(backup_task_title):
\*         self.output(f"{backup_task_title} is still running, delaying ...")
CheckBackupRunning(w) ==
    /\ At(w, "check_backup", {"StartPostBackup"})
    /\ LET request == threads[w].request
           backup_task_title == BackupTitle(request.config)
           keys == Touch(task_keys, backup_task_title)
       IN  /\ task_keys' = keys
           /\ IF TaskIsRunning(task_status, backup_task_title)
              THEN LET out == Output(output_queue, last_sent_icon, task_status, keys,
                                     Hover("is still running, delaying",
                                           backup_task_title))
                   IN  /\ CanPut(1)
                       /\ output_queue' = out.queue
                       /\ last_sent_icon' = out.last
                       /\ threads' = [threads EXCEPT ![w].pc = "sleep30"]
              ELSE /\ threads' = [threads EXCEPT ![w].pc = "set_running"]
                   /\ UNCHANGED <<output_queue, last_sent_icon>>
    /\ UNCHANGED <<input_queue, task_status, dispatcher, files, schedule_jobs,
                   systray, popen_count>>

\* run_post_backup putting q_req.StartPostBackup(config) back in place of
\* the request it was given
PutBackAsNew(queue, request) ==
    Append(queue, Request(request.type, request.config, FALSE, request.id))

\* self.input_queue.put(request)
PutBack(queue, request) == Append(queue, request)

\* sleep(30); self.input_queue.put(request); return
Requeue(w) ==
    /\ At(w, "sleep30", {"StartPostBackup"})
    /\ input_queue' = PutBack(input_queue, threads[w].request)
    /\ threads' = [threads EXCEPT ![w] = Idle]
    /\ UNCHANGED <<output_queue, table, last_sent_icon, dispatcher, files,
                   schedule_jobs, systray, popen_count>>

\* run_backup: self.rotate_logs(config.log_file)
Rotate(w) ==
    /\ At(w, "rotate", {"StartBackup"})
    /\ LET config == threads[w].request.config
       IN  log_files' = [log_files EXCEPT ![config] = RotateLogs(@)]
    /\ threads' = [threads EXCEPT ![w].pc = "load"]
    /\ UNCHANGED <<queues, table, last_sent_icon, dispatcher, line_count_file,
                   log_text, report_files,
                   schedule_jobs, systray, popen_count>>

\* The clause `except subprocess.CalledProcessError: return` taking every
\* exception
TaskExceptAsHandled(w, title) ==
    /\ CanPut(1)
    /\ threads' = [threads EXCEPT ![w] = Idle]
    /\ UNCHANGED <<output_queue, table, last_sent_icon>>

\* The except Exception clause of a task thread:
\*     self.task_status[task_title] = TaskStatus.FAILED
\*     self.output(f"Error running ...: {ex}")
TaskExcept(w, title) ==
    LET status == [task_status EXCEPT ![title] = FAILED]
        keys == Touch(task_keys, title)
        out == Output(output_queue, last_sent_icon, status, keys,
                      Hover("Error running", title))
    IN  /\ CanPut(1)
        /\ task_status' = status
        /\ task_keys' = keys
        /\ output_queue' = out.queue
        /\ last_sent_icon' = out.last
        /\ threads' = [threads EXCEPT ![w] = Idle]

\* load_line_count: 0 without the file, int(file.read()) with it, which
\* raises ValueError when the content is no number.
LoadLineCount(w) ==
    /\ At(w, "load", {"StartBackup"})
    /\ LET request == threads[w].request
           content == line_count_file[request.config]
       IN  IF content.exists /\ ~content.parses
           THEN TaskExcept(w, TaskTitle(request))
           ELSE /\ threads' = [threads EXCEPT
                      ![w].pc = "set_running",
                      ![w].line_count_target = IF content.exists THEN content.value ELSE 0]
                /\ UNCHANGED <<output_queue, table, last_sent_icon>>
    /\ UNCHANGED <<input_queue, dispatcher, files, schedule_jobs, systray, popen_count>>

\* run_process_and_update_systray:
\*     self.task_status[title] = TaskStatus.RUNNING
\*     self.output(f"Running {title}: started")
SetRunning(w) ==
    /\ At(w, "set_running", StartTypes)
    /\ CanPut(1)
    /\ LET title == TaskTitle(threads[w].request)
           status == [task_status EXCEPT ![title] = RUNNING]
           keys == Touch(task_keys, title)
           out == Output(output_queue, last_sent_icon, status, keys,
                         Hover("Running: started", title))
       IN  /\ task_status' = status
           /\ task_keys' = keys
           /\ output_queue' = out.queue
           /\ last_sent_icon' = out.last
    /\ threads' = [threads EXCEPT ![w].pc = "popen"]
    /\ UNCHANGED <<input_queue, dispatcher, files, schedule_jobs, systray, popen_count>>

\* The same two lines where threads may be inside update_systray together:
\* it holds no lock, so its statements are steps of their own.  First
\*     self.task_status[title] = TaskStatus.RUNNING
\* and, in update_systray, the choice of the icon and
\*     if icon == self.last_sent_icon: icon = None
SetRunningCompare(w) ==
    /\ At(w, "set_running", StartTypes)
    /\ LET title == TaskTitle(threads[w].request)
           status == [task_status EXCEPT ![title] = RUNNING]
           keys == Touch(task_keys, title)
           chosen == SelectIcon(status, keys)
       IN  /\ task_status' = status
           /\ task_keys' = keys
           /\ threads' = [threads EXCEPT
                  ![w].pc = "set_last_sent_icon",
                  ![w].icon = IF chosen = last_sent_icon THEN None ELSE chosen]
    /\ UNCHANGED <<queues, last_sent_icon, dispatcher, files, schedule_jobs, systray,
                   popen_count>>

\*     else: self.last_sent_icon = icon
SetLastSentIcon(w) ==
    /\ At(w, "set_last_sent_icon", StartTypes)
    /\ last_sent_icon' = IF threads[w].icon = None THEN last_sent_icon
                         ELSE threads[w].icon
    /\ threads' = [threads EXCEPT ![w].pc = "put"]
    /\ UNCHANGED <<queues, table, dispatcher, files, schedule_jobs, systray,
                   popen_count>>

\*     self.output_queue.put(q_req.UpdateSystray(hover_text=hover_text, icon=icon))
PutUpdateSystray(w) ==
    /\ At(w, "put", StartTypes)
    /\ CanPut(1)
    /\ output_queue' = Put(output_queue,
                           UpdateSystray(Hover("Running: started",
                                               TaskTitle(threads[w].request)),
                                         threads[w].icon))
    /\ threads' = [threads EXCEPT ![w].pc = "popen", ![w].icon = None]
    /\ UNCHANGED <<input_queue, table, last_sent_icon, dispatcher, files,
                   schedule_jobs, systray, popen_count>>

\* with subprocess.Popen(args=command_parts, ...) as process: the command
\* runs from here on.  borgmatic opens the --log-file it is given.
Popen(w) ==
    /\ At(w, "popen", StartTypes)
    /\ LET request == threads[w].request
       IN  /\ log_files' = IF request.type = "StartBackup"
                           THEN [log_files EXCEPT ![request.config][0] = BorgmaticLog]
                           ELSE log_files
           /\ popen_count' = [popen_count EXCEPT ![request.id] = @ + 1]
    /\ threads' = [threads EXCEPT ![w].pc = "readline", ![w].process = "live",
                                  ![w].line_count = 0]
    /\ UNCHANGED <<queues, table, last_sent_icon, dispatcher, line_count_file,
                   log_text, report_files,
                   schedule_jobs, systray>>

\* subprocess.Popen raises OSError: the command cannot be started (no
\* wsl.exe).  The except Exception clause of run_backup / run_post_backup.
PopenRaises(w) ==
    /\ At(w, "popen", StartTypes)
    /\ TaskExcept(w, TaskTitle(threads[w].request))
    /\ UNCHANGED <<input_queue, dispatcher, files, schedule_jobs, systray, popen_count>>

\* percentage = (line_count / line_count_target) * 100 taking the lines
\* read before this one
PercentageOfEarlierLines(line_count, line_count_target) ==
    (20000 * (line_count - 1) + line_count_target) \div (2 * line_count_target)

\* percentage = (line_count / line_count_target) * 100 as f"{percentage:.2f}"
\* writes it, in hundredths of a percent
Percentage(line_count, line_count_target) ==
    (20000 * line_count + line_count_target) \div (2 * line_count_target)

\* hover_text = f"Running {title} ({time_string}", then
\* f", {percentage:.2f}%" if line_count_target > 0, then f"):\n{line}"
RunningHover(title, line_count, line_count_target) ==
    IF line_count_target > 0
    THEN <<"Running", title, Percentage(line_count, line_count_target)>>
    ELSE Hover("Running", title)

\* The test before process.terminate() taking every active status
TerminateWhenActive(status) == status \in {RUNNING, CANCEL_REQUESTED}

\* if self.task_status[title] == TaskStatus.CANCEL_REQUESTED: process.terminate()
TerminateRequested(status) == status = CANCEL_REQUESTED

\* for line in iter(process.stdout.readline, b""): one line of the process.
\*     line_count += 1
\*     if self.task_status[title] == TaskStatus.CANCEL_REQUESTED: process.terminate()
\*     if time() - last_update_time > 1: self.update_systray(hover_text)
ReadLine(w) ==
    /\ At(w, "readline", StartTypes)
    /\ IsLive(w)
    /\ threads[w].line_count < MaxLines
    /\ LET title == TaskTitle(threads[w].request)
       IN  /\ threads' = [threads EXCEPT
                 ![w].line_count = @ + 1,
                 ![w].terminate_sent = @ \/ TerminateRequested(task_status[title])]
           /\ \E second_passed \in BOOLEAN :
                IF second_passed
                THEN LET out == Output(output_queue, last_sent_icon, task_status,
                                       task_keys,
                                       RunningHover(title, threads[w].line_count + 1,
                                                    threads[w].line_count_target))
                     IN  /\ CanPut(1)
                         /\ output_queue' = out.queue
                         /\ last_sent_icon' = out.last
                ELSE UNCHANGED <<output_queue, last_sent_icon>>
    /\ UNCHANGED <<input_queue, table, dispatcher, files, schedule_jobs, systray,
                   popen_count>>

\* The command ends, by itself or because it was asked to terminate, with
\* some return code.
ProcessExit(w) ==
    /\ IsLive(w)
    /\ \E returncode \in {0, 1} :
         threads' = [threads EXCEPT ![w].process = "exited",
                                    ![w].returncode = returncode]
    /\ UNCHANGED <<queues, table, last_sent_icon, dispatcher, files, schedule_jobs,
                   systray, popen_count>>

\* The end of run_process_and_update_systray without its returncode test
TerminalStatusIgnoringReturncode(returncode) == FINISHED

\* if process.returncode != 0: FAILED, else FINISHED
TerminalStatus(returncode) == IF returncode # 0 THEN FAILED ELSE FINISHED

\* readline returns b"": process.wait(), then
\*     if process.returncode != 0: FAILED, output, raise CalledProcessError
\*     FINISHED, output, return line_count
\* The callers catch CalledProcessError and return.
ProcessEnd(w) ==
    /\ At(w, "readline", StartTypes)
    /\ threads[w].process = "exited"
    /\ CanPut(1)
    /\ LET request == threads[w].request
           title == TaskTitle(request)
           failed == threads[w].returncode # 0
           status == [task_status EXCEPT
                         ![title] = TerminalStatus(threads[w].returncode)]
           out == Output(output_queue, last_sent_icon, status, task_keys,
                         Hover(IF failed THEN "Failed" ELSE "Finished", title))
       IN  /\ task_status' = status
           /\ output_queue' = out.queue
           /\ last_sent_icon' = out.last
           /\ threads' = IF ~failed /\ request.type = "StartBackup"
                         THEN [threads EXCEPT ![w].pc = "save", ![w].process = "none"]
                         ELSE [threads EXCEPT ![w] = Idle]
    /\ UNCHANGED <<input_queue, task_keys, dispatcher, files, schedule_jobs, systray,
                   popen_count>>

\* run_backup: self.save_line_count(config.backup_line_count_file, backup_lines)
SaveLineCount(w) ==
    /\ At(w, "save", {"StartBackup"})
    /\ line_count_file' = [line_count_file EXCEPT
                              ![threads[w].request.config] = SavedLineCount(threads[w].line_count)]
    /\ threads' = [threads EXCEPT ![w] = Idle]
    /\ UNCHANGED <<queues, table, last_sent_icon, dispatcher, log_files,
                   log_text, report_files,
                   schedule_jobs, systray, popen_count>>

\* ------------------------------------------------------------ analyze_logs
\* analyze_logs: self.task_status[task_title] = TaskStatus.RUNNING, with no
\* look at the status before.
AnalysisSetRunning(w) ==
    /\ At(w, "set_running", {"AnalyzeLogs"})
    /\ LET title == TaskTitle(threads[w].request)
       IN  /\ task_status' = [task_status EXCEPT ![title] = RUNNING]
           /\ task_keys' = Touch(task_keys, title)
    /\ threads' = [threads EXCEPT ![w].pc = "scan", ![w].generation = 0]
    /\ UNCHANGED <<queues, last_sent_icon, dispatcher, files, schedule_jobs, systray,
                   popen_count>>

\* One turn of `for i in range(0, 10)`: break at the first generation that
\* does not exist; else output "Analyzing ..." and read the file, which
\* raises when a timestamp in it does not parse.
ScanLog(w) ==
    /\ At(w, "scan", {"AnalyzeLogs"})
    /\ LET request == threads[w].request
           i == threads[w].generation
       IN  IF i = 10 \/ log_files[request.config][i] = NoFile
           THEN /\ threads' = [threads EXCEPT ![w].pc = "report"]
                /\ UNCHANGED <<output_queue, table, last_sent_icon>>
           ELSE /\ CanPut(1)
                /\ \E parses \in BOOLEAN :
                     IF parses
                     THEN LET out == Output(output_queue, last_sent_icon, task_status,
                                            task_keys,
                                            Hover("Analyzing", TaskTitle(request)))
                          IN  /\ output_queue' = out.queue
                              /\ last_sent_icon' = out.last
                              /\ threads' = [threads EXCEPT
                                     ![w].generation = i + 1,
                                     ![w].analysis = ScanGeneration(
                                         @, i, log_text[log_files[request.config][i]])]
                              /\ UNCHANGED table
                     ELSE TaskExcept(w, TaskTitle(request))
    /\ UNCHANGED <<input_queue, dispatcher, files, schedule_jobs, systray, popen_count>>

\* The four write_report calls of analyze_logs; the one of diff_last_backups.
WriteReports(w) ==
    /\ At(w, "report", {"AnalyzeLogs", "DiffLastBackups"})
    /\ LET request == threads[w].request
       IN  report_files' = [report_files EXCEPT ![request.config] =
               IF request.type = "AnalyzeLogs"
               THEN AnalysisReports(@, threads[w].analysis)
               ELSE [@ EXCEPT !.written = @ \cup {"report_diff"}]]
    /\ threads' = [threads EXCEPT ![w].pc = "finish"]
    /\ UNCHANGED <<queues, table, last_sent_icon, dispatcher, log_files,
                   line_count_file, log_text, schedule_jobs, systray, popen_count>>

\* self.task_status[task_title] = TaskStatus.FINISHED
\* self.output(f"Finished analyzing {config.name} logs") / "Finished diff ..."
ReportEnd(w) ==
    /\ At(w, "finish", {"AnalyzeLogs", "DiffLastBackups"})
    /\ CanPut(1)
    /\ LET title == TaskTitle(threads[w].request)
           status == [task_status EXCEPT ![title] = FINISHED]
           out == Output(output_queue, last_sent_icon, status, task_keys,
                         Hover("Finished", title))
       IN  /\ task_status' = status
           /\ output_queue' = out.queue
           /\ last_sent_icon' = out.last
    /\ threads' = [threads EXCEPT ![w] = Idle]
    /\ UNCHANGED <<input_queue, task_keys, dispatcher, files, schedule_jobs, systray,
                   popen_count>>

\* ------------------------------------------------------- diff_last_backups
\* self.task_status[task_title] = TaskStatus.RUNNING
\* self.output(f"Finding last two backups for {config.name}...")
DiffSetRunning(w) ==
    /\ At(w, "set_running", {"DiffLastBackups"})
    /\ CanPut(1)
    /\ LET title == TaskTitle(threads[w].request)
           status == [task_status EXCEPT ![title] = RUNNING]
           keys == Touch(task_keys, title)
           out == Output(output_queue, last_sent_icon, status, keys,
                         Hover("Finding last two backups", title))
       IN  /\ task_status' = status
           /\ task_keys' = keys
           /\ output_queue' = out.queue
           /\ last_sent_icon' = out.last
    /\ threads' = [threads EXCEPT ![w].pc = "rlist"]
    /\ UNCHANGED <<input_queue, dispatcher, files, schedule_jobs, systray, popen_count>>

\* subprocess.run(... borg rlist, check=True): CalledProcessError on a
\* non-zero return code, caught by `except Exception`; else
\* self.output(f"Running diff for {config.name}...")
RunRList(w) ==
    /\ At(w, "rlist", {"DiffLastBackups"})
    /\ CanPut(1)
    /\ LET title == TaskTitle(threads[w].request)
       IN  \E returncode \in {0, 1} :
             IF returncode # 0
             THEN TaskExcept(w, title)
             ELSE LET out == Output(output_queue, last_sent_icon, task_status,
                                    task_keys, Hover("Running diff", title))
                  IN  /\ output_queue' = out.queue
                      /\ last_sent_icon' = out.last
                      /\ threads' = [threads EXCEPT ![w].pc = "diff"]
                      /\ UNCHANGED table
    /\ UNCHANGED <<input_queue, dispatcher, files, schedule_jobs, systray, popen_count>>

\* subprocess.run(... borg diff ..., check=True)
RunDiff(w) ==
    /\ At(w, "diff", {"DiffLastBackups"})
    /\ LET title == TaskTitle(threads[w].request)
       IN  \E returncode \in {0, 1} :
             IF returncode # 0
             THEN TaskExcept(w, title)
             ELSE /\ threads' = [threads EXCEPT ![w].pc = "report"]
                  /\ UNCHANGED <<output_queue, table, last_sent_icon>>
    /\ UNCHANGED <<input_queue, dispatcher, files, schedule_jobs, systray, popen_count>>

\* ------------------------------------------------------------- the systray
\* A menu entry of BorgmaticSystray puts its request on the queue of the
\* backup thread (the systray's output_queue); is_scheduled is left False.
SystrayMenu(type, config) ==
    /\ next_id < MaxRequests
    /\ next_id' = next_id + 1
    /\ input_queue' = Append(input_queue, Request(type, config, FALSE, next_id + 1))
    /\ UNCHANGED <<output_queue, table, last_sent_icon, dispatcher, threads, files,
                   schedule_jobs, systray_pc, systray_icon, popen_count>>

\* on_quit -> BorgmaticSystray.queue_exit: Exit on both queues
SystrayQuit ==
    /\ next_id < MaxRequests
    /\ next_id' = next_id + 1
    /\ input_queue' = Append(input_queue, ExitRequest)
    /\ output_queue' = Append(output_queue, ExitMessage)
    /\ UNCHANGED <<table, last_sent_icon, dispatcher, threads, files, schedule_jobs,
                   systray_pc, systray_icon, popen_count>>

\* systray_update_thread: case UpdateSystray(): self.update(icon, hover_text)
SystrayUpdate ==
    /\ systray_pc = "loop"
    /\ output_queue # <<>>
    /\ Head(output_queue).type = "UpdateSystray"
    /\ output_queue' = Tail(output_queue)
    /\ systray_icon' = IF Head(output_queue).icon = None THEN systray_icon
                       ELSE Head(output_queue).icon
    /\ UNCHANGED <<input_queue, table, last_sent_icon, dispatcher, threads, files,
                   schedule_jobs, systray_pc, next_id, popen_count>>

\* systray_update_thread: case Exit(): self.queue_exit(); break
SystrayExit ==
    /\ systray_pc = "loop"
    /\ output_queue # <<>>
    /\ Head(output_queue).type = "Exit"
    /\ output_queue' = Append(Tail(output_queue), ExitMessage)
    /\ input_queue' = Append(input_queue, ExitRequest)
    /\ systray_pc' = "stopped"
    /\ UNCHANGED <<table, last_sent_icon, dispatcher, threads, files, schedule_jobs,
                   next_id, systray_icon, popen_count>>

\* ------------------------------------------------------ the specifications
TaskStep(w) ==
    \/ CheckRunning(w)
    \/ CheckBackupRunning(w)
    \/ Requeue(w)
    \/ Rotate(w)
    \/ LoadLineCount(w)
    \/ SetRunning(w)
    \/ Popen(w)
    \/ ReadLine(w)
    \/ ProcessExit(w)
    \/ ProcessEnd(w)
    \/ SaveLineCount(w)

StartCancelTypes ==
    {"StartBackup", "CancelBackup", "StartPostBackup", "CancelPostBackup"}

Next ==
    \/ \E type \in StartCancelTypes : SystrayMenu(type, "Alpha")
    \/ SystrayUpdate
    \/ RunStart
    \/ DispatchStartBackup
    \/ DispatchStartPostBackup
    \/ DispatchCancelBackup
    \/ DispatchCancelPostBackup
    \/ CancelWrite
    \/ \E w \in ThreadIds : TaskStep(w)

Spec == Init /\ [][Next]_vars

\* The report requests alone, on a config that has two generations of log.
ReportTypes == {"AnalyzeLogs", "DiffLastBackups"}

TwoLogs == [NoLogs EXCEPT ![0] = BorgmaticLog, ![1] = BorgmaticLog]

ReportInit ==
    Constructed(<<>>, [c \in Configs |-> TwoLogs], [c \in Configs |-> NoLineCount],
                <<>>)

ReportStep(w) ==
    \/ AnalysisSetRunning(w)
    \/ ScanLog(w)
    \/ DiffSetRunning(w)
    \/ RunRList(w)
    \/ RunDiff(w)
    \/ WriteReports(w)
    \/ ReportEnd(w)

ReportNext ==
    \/ \E type \in ReportTypes : SystrayMenu(type, "Alpha")
    \/ SystrayUpdate
    \/ RunStart
    \/ DispatchAnalyzeLogs
    \/ DispatchDiffLastBackups
    \/ \E w \in ThreadIds : ReportStep(w)

ReportSpec == ReportInit /\ [][ReportNext]_vars

\* One backup of one config, already requested, and cancel requests for it.
BackupStep(w) ==
    \/ CheckRunning(w)
    \/ Rotate(w)
    \/ LoadLineCount(w)
    \/ SetRunning(w)
    \/ Popen(w)
    \/ ReadLine(w)
    \/ ProcessExit(w)
    \/ ProcessEnd(w)
    \/ SaveLineCount(w)

CancelInit ==
    Constructed(<<Request("StartBackup", "Alpha", FALSE, FirstId)>>,
                [c \in Configs |-> NoLogs], [c \in Configs |-> NoLineCount], <<>>)

CancelNext ==
    \/ SystrayMenu("CancelBackup", "Alpha")
    \/ SystrayUpdate
    \/ RunStart
    \/ DispatchStartBackup
    \/ DispatchCancelBackup
    \/ CancelWrite
    \/ \E w \in ThreadIds : BackupStep(w)

CancelSpec == CancelInit /\ [][CancelNext]_vars

\* The scheduled backup and post-backup of one config, enabled as
\* BorgmaticSystray.start does at startup, and cancel requests for the backup.
FollowUpInit ==
    Constructed(<<>>, [c \in Configs |-> NoLogs], [c \in Configs |-> NoLineCount],
                EnabledJobs("Alpha"))

FollowUpRun ==
    \/ RunStart
    \/ DispatchStartBackup
    \/ DispatchStartPostBackup
    \/ DispatchCancelBackup
    \/ CancelWrite

FollowUpStep(w) ==
    \/ Sleep10(w)
    \/ TaskStep(w)

FollowUpNext ==
    \/ \E job \in Range(EnabledJobs("Alpha")) : RunPending(job)
    \/ SystrayMenu("CancelBackup", "Alpha")
    \/ SystrayUpdate
    \/ FollowUpRun
    \/ \E w \in ThreadIds : FollowUpStep(w)

FollowUpSpec == FollowUpInit /\ [][FollowUpNext]_vars

\* "Run backup now" and then "Run post-backup tasks", as often as the user
\* likes.  The loop run(), the systray's update thread and every thread
\* run() starts keep running, every process ends, and a put on the output
\* queue never waits for good; when the user clicks is left open.
RetryRun ==
    \/ RunStart
    \/ DispatchStartBackup
    \/ DispatchStartPostBackup

RetryNext ==
    \/ SystrayMenu(IF next_id = 0 THEN "StartBackup" ELSE "StartPostBackup", "Alpha")
    \/ SystrayUpdate
    \/ RetryRun
    \/ \E w \in ThreadIds : TaskStep(w)

RetrySpec ==
    /\ Init
    /\ [][RetryNext]_vars
    /\ SF_vars(RetryRun)
    /\ SF_vars(SystrayUpdate)
    /\ \A w \in ThreadIds : SF_vars(TaskStep(w))

\* One backup of one config, requested once, and nothing else; any set of
\* generations of its log may exist at the start.
SingleInit ==
    \E existing \in SUBSET Generations :
        Constructed(<<Request("StartBackup", "Alpha", FALSE, FirstId)>>,
                    [c \in Configs |-> IF c = "Alpha" THEN OldLogs(existing) ELSE NoLogs],
                    [c \in Configs |-> NoLineCount], <<>>)

SingleNext ==
    \/ SystrayUpdate
    \/ RunStart
    \/ DispatchStartBackup
    \/ \E w \in ThreadIds : BackupStep(w)

SingleSpec == SingleInit /\ [][SingleNext]_vars

\* task_is_running on every status table of the backup and post-backup titles
\* of a config, called by the handlers of one start or cancel request.
LookupInit ==
    \E keys \in KeyOrders({BackupTitle("Alpha"), PostBackupTitle("Alpha")}, 2) :
        \E status \in StatusTables(keys) :
            \E type \in StartCancelTypes :
                WithTable(<<Request(type, "Alpha", FALSE, FirstId)>>, status, keys)

LookupNext ==
    \/ SystrayUpdate
    \/ RunStart
    \/ DispatchStartBackup
    \/ DispatchStartPostBackup
    \/ DispatchCancelBackup
    \/ DispatchCancelPostBackup
    \/ CancelWrite
    \/ \E w \in ThreadIds : CheckRunning(w) \/ CheckBackupRunning(w)

LookupSpec == LookupInit /\ [][LookupNext]_vars

\* update_systray on every status table of at most MaxKeys keys: the first
\* output of run() chooses its icon from the table.
IconInit ==
    \E keys \in KeyOrders(Titles, MaxKeys) :
        \E status \in StatusTables(keys) :
            WithTable(<<>>, status, keys)

IconNext == SystrayUpdate \/ RunStart

IconSpec == IconInit /\ [][IconNext]_vars

\* Backups of the configs started from the menu, their processes printing
\* no line, with update_systray's statements as separate steps where the
\* threads publish "started".
PublishStep(w) ==
    \/ CheckRunning(w)
    \/ Rotate(w)
    \/ LoadLineCount(w)
    \/ SetRunningCompare(w)
    \/ SetLastSentIcon(w)
    \/ PutUpdateSystray(w)
    \/ Popen(w)
    \/ ProcessExit(w)
    \/ ProcessEnd(w)
    \/ SaveLineCount(w)

PublishNext ==
    \/ \E config \in Configs : SystrayMenu("StartBackup", config)
    \/ SystrayUpdate
    \/ RunStart
    \/ DispatchStartBackup
    \/ \E w \in ThreadIds : PublishStep(w)

PublishSpec == Init /\ [][PublishNext]_vars

\* Backups of one config and Quit chosen in the menu: Exit goes round both
\* queues while backup threads work.
ExitNext ==
    \/ SystrayMenu("StartBackup", "Alpha")
    \/ SystrayQuit
    \/ SystrayUpdate
    \/ SystrayExit
    \/ RunStart
    \/ DispatchStartBackup
    \/ DispatchExit
    \/ QueueExitNext
    \/ RunExceptIcon
    \/ \E w \in ThreadIds : BackupStep(w)

ExitSpec == Init /\ [][ExitNext]_vars

\* A q_req.UpdateSystray object on the input queue, and an object of no
\* request class at all.
InboundUpdateSystray == UpdateSystray(Hover("Inbound", NoTitle), "./icons/drive.ico")

OtherObject == [type |-> "object"]

\* Something puts on the input queue an object run() has no case for.
PutOther(object) ==
    /\ next_id < MaxRequests
    /\ next_id' = next_id + 1
    /\ input_queue' = Append(input_queue, object)
    /\ UNCHANGED <<output_queue, table, last_sent_icon, dispatcher, threads, files,
                   schedule_jobs, systray_pc, systray_icon, popen_count>>

\* The steps of a backup thread whose process prints no line.
QuietStep(w) ==
    \/ CheckRunning(w)
    \/ Rotate(w)
    \/ LoadLineCount(w)
    \/ SetRunning(w)
    \/ Popen(w)
    \/ ProcessExit(w)
    \/ ProcessEnd(w)
    \/ SaveLineCount(w)

\* run() goes on whenever it can: a put on either queue does not block and
\* get(timeout=1) returns.
DefensiveRun ==
    \/ RunStart
    \/ DispatchStartBackup
    \/ DispatchOther
    \/ RunExceptIcon

\* Backups of one config started from the menu, among objects on the input
\* queue that run() has no case for.
DefensiveNext ==
    \/ SystrayMenu("StartBackup", "Alpha")
    \/ PutOther(InboundUpdateSystray)
    \/ PutOther(OtherObject)
    \/ SystrayUpdate
    \/ DefensiveRun
    \/ \E w \in ThreadIds : QuietStep(w)

DefensiveSpec ==
    /\ Init
    /\ [][DefensiveNext]_vars
    /\ SF_vars(DefensiveRun)
    /\ SF_vars(SystrayUpdate)
    /\ \A w \in ThreadIds : SF_vars(QuietStep(w))

\* Tasks of all four kinds of one config started from the menu, with the
\* exceptions their threads can meet: a line-count file that is no number,
\* a command that cannot be started, a log line that does not parse, a borg
\* command that fails.  The processes print no line.
UnparsableLineCount == LineCountFile(TRUE, FALSE, 0)

ErrorInit ==
    \E content \in {NoLineCount, UnparsableLineCount} :
        Constructed(<<>>, [c \in Configs |-> [NoLogs EXCEPT ![0] = BorgmaticLog]],
                    [c \in Configs |-> IF c = "Alpha" THEN content ELSE NoLineCount],
                    <<>>)

ErrorStep(w) ==
    \/ CheckRunning(w)
    \/ CheckBackupRunning(w)
    \/ Requeue(w)
    \/ Rotate(w)
    \/ LoadLineCount(w)
    \/ SetRunning(w)
    \/ Popen(w)
    \/ PopenRaises(w)
    \/ ProcessExit(w)
    \/ ProcessEnd(w)
    \/ SaveLineCount(w)
    \/ ReportStep(w)

TaskTypes == {"StartBackup", "StartPostBackup", "AnalyzeLogs", "DiffLastBackups"}

ErrorNext ==
    \/ \E type \in TaskTypes : SystrayMenu(type, "Alpha")
    \/ SystrayUpdate
    \/ RunStart
    \/ DispatchStartBackup
    \/ DispatchStartPostBackup
    \/ DispatchAnalyzeLogs
    \/ DispatchDiffLastBackups
    \/ \E w \in ThreadIds : ErrorStep(w)

ErrorSpec == ErrorInit /\ [][ErrorNext]_vars

\* One AnalyzeLogs request, already made, for a config whose logs hold any
\* lines.  A log is given by what each line adds to the clock: a line of
\* fewer than five parts, a line flagged A for either file, 599 s or 600 s
\* after the line before, an excluded file (-), an error (E), and borg's
\* warning that a file changed, whose parts[3] is no flag.
LogEntry(parts, seconds, file_flag, log_file, changed) ==
    [parts |-> parts, seconds |-> seconds, file_flag |-> file_flag,
     log_file |-> log_file, changed |-> changed]

LogEntries ==
    {LogEntry(3, 0, "", <<>>, FALSE)}
        \cup {LogEntry(5, seconds, "A", log_file, FALSE) :
                 seconds \in {599, 600}, log_file \in LogFiles}
        \cup {LogEntry(5, 599, "-", <<"", "a">>, FALSE),
              LogEntry(5, 599, "E", <<"", "a">>, FALSE),
              LogEntry(9, 599, "/a:", <<"file", "changed">>, TRUE)}

\* The lines these entries make, with the time each one carries.
RECURSIVE Stamped(_, _, _)
Stamped(entries, n, timestamp) ==
    IF n > Len(entries) THEN <<>>
    ELSE LET entry == entries[n]
             now == timestamp + entry.seconds
         IN  <<LogLine(entry.parts, IF entry.parts < 5 THEN 0 ELSE now,
                       entry.file_flag, entry.log_file, entry.changed)>>
                 \o Stamped(entries, n + 1, now)

LogsUpTo(most) ==
    UNION {{Stamped(entries, 1, 0) : entries \in [1..n -> LogEntries]} : n \in 0..most}

AnalysisInit ==
    \E k \in 0..MaxLogs :
        \E text \in [1..k -> LogsUpTo(MaxLogLines)] :
            /\ \A g \in 2..k : Len(text[g]) < MaxLogLines
            /\ ConstructedWith(
                   <<Request("AnalyzeLogs", "Alpha", FALSE, FirstId)>>,
                   [c \in Configs |->
                       IF c = "Alpha"
                       THEN [g \in Generations |-> IF g < k THEN g + 1 ELSE NoFile]
                       ELSE NoLogs],
                   [c \in Configs |-> NoLineCount], <<>>,
                   [content \in Contents |->
                       IF content \in 1..k THEN text[content] ELSE <<>>])

AnalysisNext ==
    \/ SystrayUpdate
    \/ RunStart
    \/ DispatchAnalyzeLogs
    \/ \E w \in ThreadIds :
         \/ AnalysisSetRunning(w)
         \/ ScanLog(w)
         \/ WriteReports(w)
         \/ ReportEnd(w)

AnalysisSpec == AnalysisInit /\ [][AnalysisNext]_vars

\* One backup of one config, requested once, whose line-count file is
\* absent or holds the count an earlier run saved.
ProgressInit ==
    \E saved \in {NoLineCount} \cup {SavedLineCount(n) : n \in 0..(MaxLines + 1)} :
        Constructed(<<Request("StartBackup", "Alpha", FALSE, FirstId)>>,
                    [c \in Configs |-> NoLogs],
                    [c \in Configs |-> IF c = "Alpha" THEN saved ELSE NoLineCount],
                    <<>>)

ProgressSpec == ProgressInit /\ [][SingleNext]_vars

\* The schedule requests of the menu alone, for either config, in any order.
ScheduleTypes == {"EnableScheduledBackups", "DisableScheduledBackups"}

ScheduleNext ==
    \/ \E type \in ScheduleTypes, config \in Configs : SystrayMenu(type, config)
    \/ SystrayUpdate
    \/ RunStart
    \/ DispatchEnableScheduledBackups
    \/ DispatchDisableScheduledBackups

ScheduleSpec == Init /\ [][ScheduleNext]_vars

\* -------------------------------------------------------------- properties
\* A task is active when its status is RUNNING or CANCEL_REQUESTED.
Active(title) == task_status[title] \in {RUNNING, CANCEL_REQUESTED}

\* The hover texts on the output queue that say `what`.
Published(what) ==
    {i \in 1..Len(output_queue) : output_queue[i].hover_text[1] = what}

\* The step puts exactly one message on the output queue, saying `what`
\* about `title`.
PublishesOnly(what, title) ==
    /\ Len(output_queue') = Len(output_queue) + 1
    /\ SubSeq(output_queue', 1, Len(output_queue)) = output_queue
    /\ output_queue'[Len(output_queue')].type = "UpdateSystray"
    /\ output_queue'[Len(output_queue')].hover_text = Hover(what, title)

\* The step starts no process.
SpawnsNothing ==
    /\ \A v \in ThreadIds : threads'[v].process = "live" => threads[v].process = "live"
    /\ popen_count' = popen_count

LiveThreads(title) ==
    {w \in ThreadIds : IsLive(w) /\ TaskTitle(threads[w].request) = title}

\* C1: for every backup and post-backup title, at most one external process
\* of that title is live at any time.
C1_OneLiveProcessPerTask ==
    \A title \in Titles : Cardinality(LiveThreads(title)) <= 1

\* The step in which thread w spawns its command.
Spawns(w) ==
    /\ threads[w].pc = "popen"
    /\ threads'[w].process = "live"

\* C2: a post-backup thread never spawns its command at a moment when the
\* backup task of its config is RUNNING or CANCEL_REQUESTED.
C2_FollowUpNeverSpawnsWhileBackupActive ==
    [][\A w \in ThreadIds :
          (Spawns(w) /\ threads[w].request.type = "StartPostBackup")
              => ~Active(BackupTitle(threads[w].request.config))]_vars

\* C3: the backup process and the post-backup process of one config are
\* never live at the same time.
C3_BackupAndFollowUpNeverBothLive ==
    \A config \in Configs :
        LiveThreads(BackupTitle(config)) = {}
            \/ LiveThreads(PostBackupTitle(config)) = {}

\* The threads that are past the RUNNING write of their title.
Working(title) ==
    {w \in ThreadIds :
        /\ threads[w].pc \notin {"idle", "set_running"}
        /\ TaskTitle(threads[w].request) = title}

\* C4: at most one thread per analysis or diff title works at a time, so
\* the reports of a config never have two writers.
C4_OneReportWorkerPerTask ==
    \A config \in Configs :
        /\ Cardinality(Working(AnalysisTitle(config))) <= 1
        /\ Cardinality(Working(DiffTitle(config))) <= 1

\* The step in which thread w, handling a StartBackup or StartPostBackup,
\* looks at its own title and finds it active.
ChecksWhileActive(w) ==
    /\ threads[w].pc = "check"
    /\ Active(TaskTitle(threads[w].request))
    /\ threads'[w] # threads[w]

\* C5: a StartBackup or StartPostBackup whose task is active at the check
\* spawns no process, changes no status, rotates no log and writes no
\* line-count file; it publishes the 'skipping' message and is over.
C5_StartOfActiveTaskOnlySkips ==
    [][\A w \in ThreadIds :
          ChecksWhileActive(w) =>
              /\ SpawnsNothing
              /\ task_status' = task_status
              /\ log_files' = log_files
              /\ line_count_file' = line_count_file
              /\ input_queue' = input_queue
              /\ PublishesOnly("is already running, skipping",
                               TaskTitle(threads[w].request))
              /\ threads' = [threads EXCEPT ![w] = Idle]]_vars

C5_Witness ==
    /\ Published("is already running, skipping") # {}
    /\ \E title \in Titles : task_status[title] = CANCEL_REQUESTED
    /\ \A w \in ThreadIds : threads[w].pc # "idle" => threads[w].process = "live"

CancelTypes == {"CancelBackup", "CancelPostBackup"}

\* The task a cancel request is for.
CancelTarget(request) ==
    <<request.config,
      IF request.type = "CancelBackup" THEN "backup" ELSE "post-backup">>

\* run() takes a cancel request off the input queue and looks at its task.
TakesCancel ==
    /\ run_pc = "loop"
    /\ input_queue # <<>>
    /\ Head(input_queue).type \in CancelTypes
    /\ input_queue' = Tail(input_queue)

\* run() leaves cancel_backup / cancel_post_backup after the status write.
WritesCancel ==
    /\ run_pc = "cancel_write"
    /\ run_pc' # run_pc

\* C6: a cancel request whose task is RUNNING or CANCEL_REQUESTED sets that
\* task to CANCEL_REQUESTED and publishes the notice; one whose task is
\* NOT_STARTED, FINISHED or FAILED changes no status and publishes nothing.
\* No other task's status changes in either case.
C6_CancelSetsOnlyActiveTarget ==
    [][/\ TakesCancel =>
            /\ task_status' = task_status
            /\ output_queue' = output_queue
            /\ IF Active(CancelTarget(Head(input_queue)))
               THEN run_pc' = "cancel_write" /\ queue_item' = Head(input_queue)
               ELSE run_pc' = "loop"
       /\ WritesCancel =>
            /\ task_status' =
                  [task_status EXCEPT ![CancelTarget(queue_item)] = CANCEL_REQUESTED]
            /\ PublishesOnly("Cancelled", CancelTarget(queue_item))
            /\ run_pc' = "loop"]_vars

C6_Witness ==
    /\ Published("Cancelled") # {}
    /\ task_status[PostBackupTitle("Alpha")] = CANCEL_REQUESTED
    /\ task_status[BackupTitle("Alpha")] = RUNNING
    /\ run_pc = "loop"

\* The thread's readline loop has called process.terminate() and is still
\* reading the process.
Terminating(w) == threads[w].pc = "readline" /\ threads[w].terminate_sent

\* The thread leaves run_process_and_update_systray: the process is over and
\* the final status is written.
Ends(w) ==
    /\ threads[w].pc = "readline"
    /\ threads[w].process = "exited"
    /\ threads'[w].pc # "readline"

\* C7: a backup cancelled while RUNNING goes RUNNING -> CANCEL_REQUESTED on
\* the cancel; the worker asks the process to terminate only on seeing
\* CANCEL_REQUESTED; from then on, whatever lines the process still emits,
\* the status stays CANCEL_REQUESTED until the process is over, and a
\* non-zero exit then makes it FAILED, never FINISHED.
C7_CancelledBackupFails ==
    [][\A w \in ThreadIds :
         LET title == TaskTitle(threads[w].request)
         IN  /\ Terminating(w) => task_status[title] = CANCEL_REQUESTED
             /\ Terminating(w) /\ ~Ends(w) => task_status'[title] = CANCEL_REQUESTED
             /\ ~Terminating(w) /\ Terminating(w)' =>
                    task_status[title] = CANCEL_REQUESTED
             /\ Terminating(w) /\ Ends(w) /\ threads[w].returncode # 0 =>
                    task_status'[title] = FAILED
             /\ WritesCancel /\ task_status[BackupTitle("Alpha")] = RUNNING =>
                    task_status'[BackupTitle("Alpha")] = CANCEL_REQUESTED]_vars

\* The cancelled backup's process was asked to terminate and has exited
\* non-zero; the worker is about to write the final status.
C7_Witness ==
    \E w \in ThreadIds :
        /\ Terminating(w)
        /\ threads[w].process = "exited"
        /\ threads[w].returncode # 0
        /\ threads[w].line_count = MaxLines
        /\ task_status[BackupTitle("Alpha")] = CANCEL_REQUESTED

\* The status changes the state machine of a task allows.
AllowedChanges ==
    ({NOT_STARTED, FINISHED, FAILED} \X {RUNNING})
        \cup {<<RUNNING, FINISHED>>, <<RUNNING, FAILED>>,
              <<RUNNING, CANCEL_REQUESTED>>, <<CANCEL_REQUESTED, FAILED>>}

\* C8: while no Exit has been processed, every change of a task's status is
\* a new start (NOT_STARTED/FINISHED/FAILED -> RUNNING), RUNNING -> FINISHED,
\* RUNNING -> FAILED, RUNNING -> CANCEL_REQUESTED or CANCEL_REQUESTED ->
\* FAILED.
C8_OnlyAllowedStatusChanges ==
    [][(run_pc \in {"start", "loop", "cancel_write"}) =>
         \A title \in Titles :
             \/ task_status'[title] = task_status[title]
             \/ (<<task_status[title], task_status'[title]>> \in AllowedChanges)]_vars

\* The copies of the request with this identity on the input queue.
Copies(id) == {i \in 1..Len(input_queue) : input_queue[i].id = id}

\* The thread found the backup active and will put its request back.
Delayed(w) == threads[w].pc = "sleep30"

\* C9: a StartPostBackup delayed because the backup was active is, once the
\* backup is no longer active, eventually run, and its command is started
\* once for that request.
C9_DelayedFollowUpEventuallyRuns ==
    \A w \in ThreadIds :
        [](Delayed(w) =>
              (<>[](~Active(BackupTitle("Alpha"))) => <>[](popen_count[w] = 1)))

\* C10: a StartPostBackup that finds the backup active is put back on the
\* input queue once, as the request it was (config, is_scheduled and
\* identity), by a step that starts no process and changes no status; the
\* request is at any time either with one thread or once on the queue.
C10_BlockedFollowUpRequeuedOnce ==
    [][\A w \in ThreadIds :
         /\ Cardinality(Copies(w)) + (IF threads[w].pc = "idle" THEN 0 ELSE 1) <= 1
         /\ Delayed(w)' /\ ~Delayed(w) =>
                /\ Active(BackupTitle(threads[w].request.config))
                /\ input_queue' = input_queue
                /\ task_status' = task_status
                /\ SpawnsNothing
         /\ Delayed(w) /\ ~Delayed(w)' =>
                /\ input_queue' = Append(input_queue, threads[w].request)
                /\ threads'[w].pc = "idle"
                /\ task_status' = task_status
                /\ SpawnsNothing]_vars

\* The delayed request is back on the queue, its thread gone, the notice of
\* the delay not yet taken by the systray.
C10_Witness ==
    /\ Published("is still running, delaying") # {}
    /\ \A w \in ThreadIds : ~Delayed(w)
    /\ \E i \in 1..Len(input_queue) :
          /\ input_queue[i].type = "StartPostBackup"
          /\ input_queue[i].is_scheduled
          /\ threads[input_queue[i].id].pc = "idle"
          /\ popen_count[input_queue[i].id] = 0

\* The thread's process is over with return code 0 and the thread leaves
\* run_process_and_update_systray.
EndsWell(w) == Ends(w) /\ threads[w].returncode = 0

\* The step puts a message saying `what` on the output queue.
Publishes(what) ==
    /\ Len(output_queue') > 0
    /\ output_queue'[Len(output_queue')].hover_text[1] = what
    /\ output_queue' # output_queue
    /\ \/ Len(output_queue') > Len(output_queue)
       \/ output_queue'[Len(output_queue')] # output_queue[Len(output_queue)]

\* C11: a single StartBackup, with an empty status table and no line-count
\* file at the start, takes the backup NOT_STARTED -> RUNNING and, when the
\* process is over with return code 0, RUNNING -> FINISHED; that one step
\* puts the one 'Finished' message on the output queue, and the line-count
\* file is then written with the number of lines the process printed.
C11_SingleBackupFinishes ==
    [][LET title == BackupTitle("Alpha")
           w == FirstId
       IN  /\ task_status'[title] # task_status[title] =>
                  <<task_status[title], task_status'[title]>> \in
                      {<<NOT_STARTED, RUNNING>>, <<RUNNING, FINISHED>>,
                       <<RUNNING, FAILED>>}
           /\ EndsWell(w) =>
                  /\ task_status[title] = RUNNING
                  /\ task_status'[title] = FINISHED
                  /\ PublishesOnly("Finished", title)
                  /\ threads'[w].pc = "save"
                  /\ threads'[w].line_count = threads[w].line_count
                  /\ ~line_count_file["Alpha"].exists
           /\ Publishes("Finished") => EndsWell(w)
           /\ threads[w].pc = "save" =>
                  /\ task_status[title] = FINISHED
                  /\ threads'[w].pc # "save" =>
                         /\ line_count_file'["Alpha"].exists
                         /\ line_count_file'["Alpha"].parses
                         /\ line_count_file'["Alpha"].value = threads[w].line_count
                         /\ threads'[w].pc = "idle"
                         /\ task_status'[title] = FINISHED
           /\ line_count_file["Alpha"].exists =>
                  /\ task_status[title] = FINISHED
                  /\ threads[w].pc = "idle"
                  /\ popen_count[w] = 1]_vars

\* The backup printed three lines, ended with return code 0 and is over:
\* FINISHED, the line-count file holds 3, the 'Finished' message waits on the
\* output queue.
C11_Witness ==
    /\ task_status[BackupTitle("Alpha")] = FINISHED
    /\ line_count_file["Alpha"].parses
    /\ line_count_file["Alpha"].value = 3
    /\ Published("Finished") # {}
    /\ threads[FirstId].pc = "idle"
    /\ popen_count[FirstId] = 1

\* The thread's call of rotate_logs.
Rotates(w) == threads[w].pc = "rotate" /\ threads'[w].pc # "rotate"

\* C13: whatever generations of the log exist, rotate_logs leaves no file
\* named log, the old log as log.1 and every old log.i (1..8) as log.(i+1);
\* the old log.9 is the only file that is lost, and with no files nothing
\* changes.  The logs of the other configs are not touched.
C13_RotateShiftsEveryGeneration ==
    [][\A w \in ThreadIds :
         Rotates(w) =>
             LET config == threads[w].request.config
                 old == log_files[config]
                 new == log_files'[config]
             IN  /\ new[0] = NoFile
                 /\ \A g \in 0..8 : new[g + 1] = old[g]
                 /\ \A g \in 0..8 : old[g] # NoFile =>
                        Cardinality({h \in Generations : new[h] = old[g]}) = 1
                 /\ (\A g \in Generations : old[g] = NoFile) => new = old
                 /\ \A other \in Configs \ {config} :
                        log_files'[other] = log_files[other]
                 /\ threads'[w].pc = "load"]_vars

\* A rotation of ten existing generations is done: log.1 .. log.9 hold the
\* old log .. log.8 and there is no log.
C13_Witness ==
    /\ threads[FirstId].pc = "load"
    /\ log_files["Alpha"][0] = NoFile
    /\ \A g \in 1..9 : log_files["Alpha"][g] = OldLog(g - 1)

\* The thread is a backup worker about to call save_line_count.
Saving(w) == threads[w].pc = "save" /\ threads[w].request.type = "StartBackup"

Seen(title) == title \in Range(task_keys)

\* The step calls task_is_running(title) and goes on as after True if
\* `found`, as after False if not.
Looks(title, found) ==
    \/ \E w \in ThreadIds :
           /\ threads[w].pc = "check"
           /\ TaskTitle(threads[w].request) = title
           /\ threads'[w].pc # "check"
           /\ found <=> threads'[w].pc = "idle"
    \/ \E w \in ThreadIds :
           /\ threads[w].pc = "check_backup"
           /\ BackupTitle(threads[w].request.config) = title
           /\ threads'[w].pc # "check_backup"
           /\ found <=> threads'[w].pc = "sleep30"
    \/ /\ run_pc = "loop"
       /\ input_queue # <<>>
       /\ Head(input_queue).type \in {"CancelBackup", "CancelPostBackup"}
       /\ input_queue' = Tail(input_queue)
       /\ CancelTitle(Head(input_queue)) = title
       /\ found <=> run_pc' = "cancel_write"

\* C14: task_is_running(title) is True exactly when the status of the title
\* is RUNNING or CANCEL_REQUESTED; a title that is no key of the table reads
\* as NOT_STARTED, and the lookup makes it a key and changes no status.
C14_TaskIsRunningIffActive ==
    [][\A title \in Titles :
         /\ ~Seen(title) => task_status[title] = NOT_STARTED
         /\ \A found \in BOOLEAN :
              Looks(title, found) =>
                  /\ found <=> task_status[title] \in {RUNNING, CANCEL_REQUESTED}
                  /\ Seen(title)'
                  /\ task_status' = task_status]_vars

\* A lookup of a title that was no key has made it a key, with NOT_STARTED,
\* and a thread went on past its check.
C14_Witness ==
    /\ task_keys = <<PostBackupTitle("Alpha"), BackupTitle("Alpha")>>
    /\ task_status[BackupTitle("Alpha")] = NOT_STARTED
    /\ task_status[PostBackupTitle("Alpha")] = NOT_STARTED
    /\ threads[FirstId].pc = "set_running"

\* The statuses of the keys of the table.
Held == {task_status[task_keys[i]] : i \in 1..Len(task_keys)}

\* The first key of the table with status RUNNING.
FirstRunning ==
    task_keys[CHOOSE i \in 1..Len(task_keys) :
                  /\ task_status[task_keys[i]] = RUNNING
                  /\ \A j \in 1..(i - 1) : task_status[task_keys[j]] # RUNNING]

\* The step is a call of update_systray with no icon given (through
\* output) on a table it leaves as it is.
SelectsIcon ==
    /\ Len(output_queue') = Len(output_queue) + 1
    /\ task_status' = task_status
    /\ task_keys' = task_keys

\* C15: the icon chosen from the status table is the error icon if a task
\* is FAILED; else, if a task is RUNNING, the icon of the first RUNNING
\* title, post-backup if the title contains 'post-backup', else backup if it
\* contains 'backup', else analysis, else diff; else the success icon if a
\* task is FINISHED; else the idle icon.
C15_IconFollowsStatusTable ==
    [][SelectsIcon =>
         last_sent_icon' =
             IF FAILED \in Held THEN "./icons/error.ico"
             ELSE IF RUNNING \in Held THEN
                 CASE TitleContains(FirstRunning, "post-backup") -> "./icons/post-backup.ico"
                   [] OTHER ->
                 CASE TitleContains(FirstRunning, "backup") -> "./icons/backup.ico"
                   [] OTHER ->
                 CASE TitleContains(FirstRunning, "analysis") -> "./icons/analyze.ico"
                   [] OTHER -> "./icons/logs.ico"
             ELSE IF FINISHED \in Held THEN "./icons/success.ico"
             ELSE "./icons/drive.ico"]_vars

\* A table whose first RUNNING task is a post-backup, before a running
\* backup and with a FINISHED task, gave the post-backup icon.
C15_Witness ==
    /\ task_keys = <<AnalysisTitle("Alpha"), PostBackupTitle("Alpha"), BackupTitle("Alpha")>>
    /\ task_status[AnalysisTitle("Alpha")] = FINISHED
    /\ task_status[PostBackupTitle("Alpha")] = RUNNING
    /\ task_status[BackupTitle("Alpha")] = RUNNING
    /\ run_pc = "loop"
    /\ last_sent_icon = "./icons/post-backup.ico"

\* The systray takes an icon-carrying message off the output queue.
GetsIcon ==
    /\ output_queue # <<>>
    /\ Head(output_queue).type = "UpdateSystray"
    /\ Head(output_queue).icon # None
    /\ output_queue' = Tail(output_queue)

\* C16: every icon-carrying UpdateSystray message differs in its icon from
\* the icon-carrying message before it on the output queue, whichever
\* threads publish at the same time.
C16_IconCarriedOnlyOnChange ==
    [][GetsIcon => Head(output_queue).icon # systray_icon]_vars

\* run() takes an Exit request off the input queue.
TakesExit ==
    /\ run_pc = "loop"
    /\ run_pc' # "loop"
    /\ input_queue # <<>>
    /\ Head(input_queue).type = "Exit"

\* The step starts no thread.
StartsNoThread ==
    \A w \in ThreadIds : threads[w].pc = "idle" => threads'[w].pc = "idle"

\* C17: the step of run() that takes Exit puts one Exit on the input queue
\* and one on the output queue; from there run() only writes
\* CANCEL_REQUESTED to the keys of the table, one after the other, and
\* stops when all of them are written; it never takes another request and
\* no thread is started once Exit is taken.
C17_ExitEndsDispatch ==
    [][/\ TakesExit =>
            /\ input_queue' = Append(Tail(input_queue), ExitRequest)
            /\ output_queue' = Append(output_queue, ExitMessage)
       /\ run_pc = "queue_exit" =>
            /\ run_pc' \in {"queue_exit", "stopped"}
            /\ input_queue' = input_queue \/ Len(input_queue') > Len(input_queue)
            /\ StartsNoThread
            /\ run_pc' = "stopped" =>
                   /\ exit_iter.index > Len(task_keys)
                   /\ task_status' = task_status
            /\ (run_pc' = "queue_exit" /\ exit_iter' # exit_iter) =>
                   task_status' = [task_status EXCEPT
                                      ![task_keys[exit_iter.index]] = CANCEL_REQUESTED]
       /\ run_pc = "stopped" => (run_pc' = "stopped" /\ StartsNoThread)]_vars

\* run() takes off the input queue an object it has no case for.
TakesOther ==
    /\ run_pc = "loop"
    /\ input_queue # <<>>
    /\ Head(input_queue).type \notin RunCases
    /\ input_queue' = Tail(input_queue)

\* An exception reaches the except clause of run().
Caught == run_pc # "except" /\ run_pc' = "except"

\* The StartBackup request of this identity waits on the input queue.
Queued(id) ==
    \E i \in 1..Len(input_queue) :
        input_queue[i].type = "StartBackup" /\ input_queue[i].id = id

\* C18: an object of a class run() has no case for ends in run()'s except
\* clause; the step that catches an exception publishes the error message,
\* and the except clause leaves the error icon as the icon sent last; these
\* steps change no task status and start no thread or process; run() then
\* is back in its loop, never stops, and every request put on the input
\* queue, before or after, is taken off it.
C18_ErrorIsPublishedAndRunGoesOn ==
    /\ [][/\ TakesOther => Caught
          /\ Caught =>
                /\ Publishes("Error in background backup thread")
                /\ task_status' = task_status
                /\ StartsNoThread
                /\ SpawnsNothing
          /\ (run_pc = "except" /\ run_pc' # "except") =>
                /\ run_pc' = "loop"
                /\ last_sent_icon' = "./icons/error.ico"
                /\ task_status' = task_status
                /\ StartsNoThread
                /\ SpawnsNothing
          /\ run_pc' # "stopped"]_vars
    /\ \A id \in 1..MaxRequests : Queued(id) ~> ~Queued(id)

\* After an object with no case, which left the error icon with no task
\* FAILED, the request put on the queue after it has its thread.
C18_Witness ==
    /\ \A title \in Titles : task_status[title] = NOT_STARTED
    /\ last_sent_icon = "./icons/error.ico"
    /\ run_pc = "loop"
    /\ input_queue = <<>>
    /\ threads[2].pc = "check"

\* C19: a q_req.UpdateSystray object taken off the input queue is put on the
\* output queue as it is, and no error is raised or published for it.
C19_InboundUpdateSystrayPassedThrough ==
    [][(TakesOther /\ Head(input_queue).type = "UpdateSystray") =>
          /\ output_queue' = Append(output_queue, Head(input_queue))
          /\ ~Caught
          /\ ~Publishes("Error in background backup thread")]_vars

\* The thread ends where only an exception ends it: reading the line-count
\* file, starting its command, reading a log, running borg rlist or diff.
Fails(w) ==
    /\ threads[w].pc \in {"load", "popen", "scan", "rlist", "diff"}
    /\ threads'[w].pc = "idle"

\* C20: a backup, post-backup, analysis or diff thread that meets an
\* exception leaves the status of its task FAILED and publishes one
\* "Error running ..." message; the step starts no process and leaves
\* run() and the input queue as they are, and run() never stops.
C20_WorkerExceptionFailsTask ==
    [][/\ \A w \in ThreadIds :
            Fails(w) =>
                /\ task_status'[TaskTitle(threads[w].request)] = FAILED
                /\ PublishesOnly("Error running", TaskTitle(threads[w].request))
                /\ SpawnsNothing
                /\ run_pc' = run_pc
                /\ input_queue' = input_queue
       /\ run_pc' # "stopped"]_vars

\* The backup failed on its line-count file before any process was started,
\* and the analysis requested after it has its thread.
C20_Witness ==
    /\ line_count_file["Alpha"] = UnparsableLineCount
    /\ task_status[BackupTitle("Alpha")] = FAILED
    /\ \A w \in ThreadIds : popen_count[w] = 0
    /\ threads[1].pc = "idle"
    /\ threads[2].pc = "scan"

\* ---------------------------------------------------------------- C21
RECURSIVE SumOf(_, _)
SumOf(numbers, n) == IF n = 0 THEN 0 ELSE numbers[n] + SumOf(numbers, n - 1)

\* The generations analyze_logs scans: those before the first missing one.
Scanned(config) ==
    {g \in Generations : \A h \in 0..g : log_files[config][h] # NoFile}

LinesOf(config, g) == log_text[log_files[config][g]]

\* The parsed line before line n of these lines; n itself when there is none.
Preceding(lines, n) ==
    LET earlier == {m \in 1..(n - 1) : lines[m].parts >= 5}
    IN  IF earlier = {} THEN n ELSE CHOOSE m \in earlier : \A o \in earlier : o <= m

Delta(lines, n) == lines[n].timestamp - lines[Preceding(lines, n)].timestamp

\* Line n carries a one-character flag for this file.
FlagsFile(lines, n, log_file) ==
    /\ lines[n].parts >= 5
    /\ Len(lines[n].file_flag) = 1
    /\ lines[n].log_file = log_file

\* The seconds the lines of one generation add for a file.
SecondsIn(lines, log_file) ==
    SumOf([n \in 1..Len(lines) |->
              IF FlagsFile(lines, n, log_file) /\ Delta(lines, n) < 600
              THEN Delta(lines, n) ELSE 0],
          Len(lines))

SecondsFor(config, log_file) ==
    SumOf([g \in 1..Cardinality(Scanned(config)) |->
              SecondsIn(LinesOf(config, g - 1), log_file)],
          Cardinality(Scanned(config)))

AnalysisWritten(config) == "report_files" \in report_files[config].written

\* C21: once the reports of a config are written, the time reported for a
\* file is, to the two decimals written, the sum over the scanned
\* generations of the deltas under 600 s between each one-character-flag
\* line for the file and the parsed line before it, divided by the number k
\* of generations scanned (by 1 when k = 0); a file is in the report when
\* some such delta was counted for it.
C21_ReportedTimeIsAverageOfCountedDeltas ==
    \A config \in Configs :
        AnalysisWritten(config) =>
            LET k == IF Scanned(config) = {} THEN 1 ELSE Cardinality(Scanned(config))
                reported == report_files[config].report_files
            IN  \A log_file \in LogFiles :
                    LET hundredths == 100 * SecondsFor(config, log_file)
                        counted == \E g \in Scanned(config) :
                                       \E n \in 1..Len(LinesOf(config, g)) :
                                           /\ FlagsFile(LinesOf(config, g), n, log_file)
                                           /\ Delta(LinesOf(config, g), n) < 600
                    IN  /\ log_file \in DOMAIN reported <=> counted
                        /\ counted =>
                               /\ 2 * (reported[log_file] * k - hundredths) <= k
                               /\ 2 * (hundredths - reported[log_file] * k) <= k

\* Two generations were scanned; a file has a delta of 600 s that is left
\* out and deltas of 599 s that are counted, and its average is written.
C21_Witness ==
    /\ AnalysisWritten("Alpha")
    /\ Cardinality(Scanned("Alpha")) = 2
    /\ \E n \in 1..Len(LinesOf("Alpha", 0)) :
           /\ FlagsFile(LinesOf("Alpha", 0), n, <<"", "a">>)
           /\ Delta(LinesOf("Alpha", 0), n) = 600
    /\ SecondsFor("Alpha", <<"", "a">>) = 1198
    /\ report_files["Alpha"].report_files[<<"", "a">>] = 59900

\* ---------------------------------------------------------------- C22
\* The step in which thread w reads a line of its process and publishes the
\* running text.
PublishesProgress(w) ==
    /\ threads[w].pc = "readline"
    /\ threads'[w].line_count = threads[w].line_count + 1
    /\ Len(output_queue') = Len(output_queue) + 1

\* C22: the running text a worker publishes after a line carries a
\* percentage exactly when the expected line count is above 0, and the
\* percentage is, to the two decimals written, the lines read so far (this
\* one included) over the expected count, times 100; 50 lines of 200 give
\* 25.00.
C22_ProgressIsLinesOverExpected ==
    [][\A w \in ThreadIds :
          PublishesProgress(w) =>
              LET hover_text == output_queue'[Len(output_queue')].hover_text
                  lines == threads'[w].line_count
                  expected == threads[w].line_count_target
              IN  /\ hover_text[1] = "Running"
                  /\ Len(hover_text) = 3 <=> expected > 0
                  /\ expected > 0 =>
                         /\ 2 * (hover_text[3] * expected - 10000 * lines) <= expected
                         /\ 2 * (10000 * lines - hover_text[3] * expected) <= expected
                  /\ RunningHover(<<"Alpha", "backup">>, 50, 200)[3] = 2500]_vars

\* The second of three expected lines was read and 66.67% is waiting for the
\* systray.
C22_Witness ==
    \E w \in ThreadIds :
        /\ threads[w].pc = "readline"
        /\ threads[w].line_count = 2
        /\ threads[w].line_count_target = 3
        /\ output_queue # <<>>
        /\ output_queue[Len(output_queue)].hover_text = <<"Running", <<"Alpha", "backup">>, 6667>>

\* ---------------------------------------------------------------- C23
\* Thread w takes a step inside run_process_and_update_systray.
Supervises(w) ==
    /\ threads[w].pc \in {"set_running", "popen", "readline"}
    /\ threads[w].request.type \in StartTypes
    /\ threads'[w] # threads[w]

\* C23: one call of run_process_and_update_systray writes RUNNING once,
\* before anything is spawned, spawns the command once, writes no status
\* while the command runs, and at the end writes one final status: FINISHED
\* exactly when the return code is 0, and then the number of lines read goes
\* back to the caller, FAILED exactly when it is not, and then the caller is
\* over without another write.
C23_OneRunningOneSpawnOneFinalStatus ==
    [][\A w \in ThreadIds :
          LET title == TaskTitle(threads[w].request)
          IN  /\ popen_count'[w] # popen_count[w] =>
                     /\ threads[w].pc = "popen"
                     /\ popen_count[w] = 0
                     /\ popen_count'[w] = 1
              /\ Supervises(w) /\ threads[w].pc = "set_running" =>
                     /\ task_status'[title] = RUNNING
                     /\ popen_count[w] = 0
                     /\ threads'[w].pc = "popen"
              /\ Supervises(w) /\ threads[w].pc # "set_running" /\ ~Ends(w) =>
                     task_status' = task_status
              /\ Ends(w) =>
                     /\ popen_count[w] = 1
                     /\ task_status'[title] = FINISHED <=> threads[w].returncode = 0
                     /\ task_status'[title] = FAILED <=> threads[w].returncode # 0
                     /\ threads[w].returncode = 0 =>
                            /\ threads'[w].pc = "save"
                            /\ threads'[w].line_count = threads[w].line_count
                     /\ threads[w].returncode # 0 => threads'[w] = Idle
              /\ threads[w].pc = "save" /\ threads'[w] # threads[w] =>
                     task_status' = task_status]_vars

\* The command was spawned once, printed two lines and returned 0: the
\* backup is FINISHED and the worker holds the count to save.
C23_Witness ==
    /\ threads[FirstId].pc = "save"
    /\ threads[FirstId].line_count = 2
    /\ threads[FirstId].returncode = 0
    /\ popen_count[FirstId] = 1
    /\ task_status[BackupTitle("Alpha")] = FINISHED

\* ---------------------------------------------------------------- C24
\* The step in which thread w reads a line of its process.
ReadsLine(w) ==
    /\ threads[w].pc = "readline"
    /\ threads'[w].line_count = threads[w].line_count + 1

\* C24: process.terminate() is first called only in a step that reads a
\* line while the task is CANCEL_REQUESTED, never on a line read while it
\* is RUNNING; without a line the process is not asked to terminate; and
\* after asking, the worker stays in the reading loop, reading whatever
\* lines still come, until the process has exited.
C24_TerminateOnlyOnLineWhileCancelRequested ==
    [][\A w \in ThreadIds :
          LET title == TaskTitle(threads[w].request)
          IN  /\ ~threads[w].terminate_sent /\ threads'[w].terminate_sent =>
                     /\ ReadsLine(w)
                     /\ task_status[title] = CANCEL_REQUESTED
              /\ ReadsLine(w) /\ task_status[title] = CANCEL_REQUESTED =>
                     threads'[w].terminate_sent
              /\ ReadsLine(w) /\ threads[w].terminate_sent =>
                     /\ threads'[w].pc = "readline"
                     /\ threads'[w].terminate_sent
              /\ threads[w].terminate_sent /\ threads[w].pc = "readline"
                     /\ threads'[w].pc # "readline" =>
                     threads[w].process = "exited"]_vars

\* The process was asked to terminate on its first line, is still running,
\* and the worker has read a second line of it since.
C24_Witness ==
    /\ threads[FirstId].terminate_sent
    /\ threads[FirstId].process = "live"
    /\ threads[FirstId].line_count = 2
    /\ popen_count[FirstId] = 1
    /\ task_status[BackupTitle("Alpha")] = CANCEL_REQUESTED

\* ---------------------------------------------------------------- C25
\* C25: once run() has handled Exit and stopped, a worker that reads a line
\* of its process finds its task CANCEL_REQUESTED, and no worker ends its
\* process with the task still RUNNING.
C25_ExitCancelsEveryWorker ==
    [][\A w \in ThreadIds :
          LET title == TaskTitle(threads[w].request)
          IN  run_pc = "stopped" =>
                  /\ ReadsLine(w) => task_status[title] = CANCEL_REQUESTED
                  /\ Ends(w) => task_status[title] # RUNNING]_vars

\* ---------------------------------------------------------------- C26
\* Thread w was started for a request of the task this cancel request is
\* for, and its run is not over.
StartedBefore(w, cancel) ==
    /\ threads[w].request.type \in StartTypes
    /\ TaskTitle(threads[w].request) = CancelTarget(cancel)
    /\ threads[w].pc \notin {"idle", "save"}

\* C26: a request is handled before the one that arrived after it: when
\* run() takes a cancel request, a start request of the same task that
\* arrived earlier has had its check and its RUNNING write, so the cancel
\* finds the task active unless that run is already over.
C26_StartTakesEffectBeforeLaterCancel ==
    [][TakesCancel =>
          \A w \in ThreadIds :
              StartedBefore(w, Head(input_queue)) =>
                  Active(CancelTarget(Head(input_queue)))]_vars

\* ---------------------------------------------------------------- C27
\* C27: a backup worker rotates the logs of its config only while no backup
\* process of that config is live.
C27_NoRotationUnderLiveBackup ==
    [][\A w \in ThreadIds :
          Rotates(w) =>
              LiveThreads(BackupTitle(threads[w].request.config)) = {}]_vars

\* ---------------------------------------------------------------- C28
\* The jobs the schedule holds for a config, in the order they were added.
JobsOf(config) ==
    LET Tagged(job) == job.tag = config
    IN  SelectSeq(schedule_jobs, Tagged)

\* run() takes a request of this type for this config off the input queue.
TakesSchedule(type, config) ==
    /\ run_pc = "loop"
    /\ input_queue # <<>>
    /\ Head(input_queue).type = type
    /\ Head(input_queue).config = config
    /\ input_queue' = Tail(input_queue)

\* C28: handling EnableScheduledBackups for a config leaves that config
\* with exactly two jobs, the scheduled StartBackup and the scheduled
\* StartPostBackup, however many it had; handling DisableScheduledBackups
\* leaves it with none; no other step, and no request for another config,
\* changes the jobs of a config.
C28_ScheduleHoldsTwoJobsOrNone ==
    [][\A config \in Configs :
          IF TakesSchedule("EnableScheduledBackups", config)
          THEN JobsOf(config)' = <<[tag |-> config, type |-> "StartBackup"],
                                   [tag |-> config, type |-> "StartPostBackup"]>>
          ELSE IF TakesSchedule("DisableScheduledBackups", config)
          THEN JobsOf(config)' = <<>>
          ELSE JobsOf(config)' = JobsOf(config)]_vars

\* Three schedule requests were handled; both configs are enabled, each with
\* its two jobs, those of the config enabled last at the end.
C28_Witness ==
    /\ next_id = MaxRequests
    /\ input_queue = <<>>
    /\ schedule_jobs = <<[tag |-> "Disk backup", type |-> "StartBackup"],
                         [tag |-> "Disk backup", type |-> "StartPostBackup"],
                         [tag |-> "Alpha", type |-> "StartBackup"],
                         [tag |-> "Alpha", type |-> "StartPostBackup"]>>

\* ---------------------------------------------------------------- C29
\* What the lines 1..n of the current log add to the errors report: for a
\* line flagged E the line just before it in the file (nothing for the
\* first line of the file), and a line that says a file changed.
RECURSIVE ErrorsUpTo(_, _)
ErrorsUpTo(lines, n) ==
    IF n = 0 THEN <<>>
    ELSE LET line == lines[n]
             before == IF line.parts >= 5 /\ line.file_flag = "E"
                       THEN <<IF n = 1 THEN EmptyLine ELSE lines[n - 1]>> ELSE <<>>
             itself == IF line.parts >= 5 /\ line.changed THEN <<line>> ELSE <<>>
         IN  ErrorsUpTo(lines, n - 1) \o before \o itself

\* C29: the excluded report holds the lines flagged '-' of the current log
\* (generation 0) and nothing of the older generations; the errors report
\* holds, for every line of the current log flagged E, the line that comes
\* just before it in the file, and nothing of the older generations.
C29_ErrorsAndExcludedFromCurrentLog ==
    \A config \in Configs :
        AnalysisWritten(config) =>
            LET lines == IF Scanned(config) = {} THEN <<>> ELSE LinesOf(config, 0)
                Excluded(line) == line.parts >= 5 /\ line.file_flag = "-"
            IN  /\ report_files[config].report_excluded = SelectSeq(lines, Excluded)
                /\ report_files[config].report_errors = ErrorsUpTo(lines, Len(lines))

\* ---------------------------------------------------------------- C30
\* Thread w is a diff thread taking a step.
DiffSteps(w) ==
    /\ threads[w].request.type = "DiffLastBackups"
    /\ threads'[w] # threads[w]

\* The diff thread's command (borg rlist or borg diff) returns non-zero:
\* subprocess.run(check=True) raises and the thread is over.
CommandFails(w) ==
    /\ DiffSteps(w)
    /\ threads[w].pc \in {"rlist", "diff"}
    /\ threads'[w].pc = "idle"

\* C30: a diff thread whose borg rlist or borg diff returns non-zero sets
\* the diff task FAILED, publishes an error and is over: it writes no
\* report and, after a failed rlist, never runs borg diff.  The diff command
\* is run only after a successful rlist, the report is written only after a
\* successful diff, and only a thread that has written the report sets
\* FINISHED.
C30_FailedDiffCommandFailsTask ==
    [][\A w \in ThreadIds :
          LET title == TaskTitle(threads[w].request)
          IN  /\ CommandFails(w) =>
                     /\ task_status'[title] = FAILED
                     /\ PublishesOnly("Error running", title)
                     /\ report_files' = report_files
                     /\ threads'[w] = Idle
              /\ DiffSteps(w) /\ threads'[w].pc = "diff" => threads[w].pc = "rlist"
              /\ DiffSteps(w) /\ threads'[w].pc = "report" => threads[w].pc = "diff"
              /\ DiffSteps(w) /\ threads'[w].pc = "finish" =>
                     /\ threads[w].pc = "report"
                     /\ "report_diff" \in report_files'[threads[w].request.config].written
              /\ DiffSteps(w) /\ task_status'[title] = FINISHED
                     /\ task_status[title] # FINISHED =>
                     threads[w].pc = "finish"
              /\ DiffSteps(w) /\ report_files' # report_files => threads[w].pc = "report"]_vars

\* A diff was requested and its command failed: the diff task is FAILED,
\* the error is waiting for the systray, no thread is left and no report
\* was written.
C30_Witness ==
    /\ task_status[<<"Alpha", "diff">>] = FAILED
    /\ \A w \in ThreadIds : threads[w].pc = "idle"
    /\ report_files["Alpha"].written = {}
    /\ output_queue # <<>>
    /\ output_queue[Len(output_queue)].hover_text = Hover("Error running", <<"Alpha", "diff">>)

\* ---------------------------------------------------------------- C31
\* The threads at work for a title: started for it and not over.
WorkersOf(title) ==
    {w \in ThreadIds :
        /\ threads[w].pc # "idle"
        /\ threads[w].request.type \in StartTypes
        /\ TaskTitle(threads[w].request) = title}

\* C31: while run() handles no Exit, a backup or post-backup task that is
\* RUNNING or CANCEL_REQUESTED has a worker thread behind it, which will
\* write FINISHED or FAILED when its process is over.
C31_ActiveStatusHasWorker ==
    \A config \in Configs :
        \A title \in {BackupTitle(config), PostBackupTitle(config)} :
            Active(title) => WorkersOf(title) # {}

\* ---------------------------------------------------------------- C32
\* The Exit messages waiting on a queue.
Exits(queue) == {i \in 1..Len(queue) : queue[i].type = "Exit"}

\* C32: each loop passes Exit on once and then takes nothing more: the
\* step in which the systray loop takes Exit puts one Exit on each queue
\* and stops the loop for good; the step in which run() takes Exit puts one
\* Exit on each queue, and from then on run() is in queue_exit or has
\* stopped, so that it never takes, and never passes on, another Exit.
C32_EachLoopPassesExitOnOnce ==
    [][/\ (systray_pc = "loop" /\ systray_pc' = "stopped") =>
              /\ Cardinality(Exits(input_queue')) = Cardinality(Exits(input_queue)) + 1
              /\ Cardinality(Exits(output_queue')) = Cardinality(Exits(output_queue))
       /\ systray_pc = "stopped" => systray_pc' = "stopped"
       /\ TakesExit =>
              /\ Cardinality(Exits(input_queue')) = Cardinality(Exits(input_queue))
              /\ Cardinality(Exits(output_queue')) = Cardinality(Exits(output_queue)) + 1
       /\ run_pc \in {"queue_exit", "stopped"} =>
              /\ run_pc' \in {"queue_exit", "stopped"}
              /\ ~TakesExit]_vars

====
